---- MODULE Spec2Model ----
\* Verification model of the cut library (filthynobleman/cut):
\*   - cut::MinHeap            (src/algo/minheap.cpp)
\*   - cut::AdjacencyList      (algo/adjlist/adjlist.cpp)
\*   - cut::CompatAdjacencyList (algo/adjlist/cadjlist.cpp)
\*   - cut::Timer and the named registries of cut::Timer and cut::Logger
\*     (time/timer.cpp, log/log.cpp)
\* Vectors are TLA+ sequences; the C++ index i is the TLA+ index i + 1.
\* Keys are doubles in the source; the model uses small integers, on which
\* the additions, negations and comparisons of the code are exact.
EXTENDS Integers, Sequences, FiniteSets, TLC

\* ------------------------------------------------------------------------
\* Bounds of the model
\* ------------------------------------------------------------------------
\* Largest number of keys given to the MinHeap constructor.
MaxN == 4
\* Keys of the constructor's vector are drawn from 0..MaxKey0.
MaxKey0 == 1
\* Increments and decrements are drawn from 0..MaxDelta.
MaxDelta == 2

\* Calls that would take a key outside KeyLo..KeyHi are not made.
KeyLo == 0 - 1
KeyHi == MaxKey0

\* Largest number of nodes of an adjacency list under mutation.
MaxNodes == 3
\* Adjacent values are drawn from 0..MaxAdj.
MaxAdj == 1
\* Longest connection list given to a constructor (the scenario lists apart).
MaxConns == 2
\* The scenario lists {(i, N) : 0 <= i < N} are taken for N in 1..MaxPairs.
MaxPairs == 5
\* The two heaps run side by side have at most MirrorN elements.
MirrorN == 3
\* A single call on one node's adjacents: the lists have at most OpNodes
\* nodes, adjacent values 0..OpAdj, and are built from at most OpConns pairs.
OpNodes == 2
OpAdj == 2
OpConns == 2
\* The clocks read by a Timer run from 0 to MaxTime ticks.
MaxTime == 4

VARIABLES
    \* ---- cut::MinHeap -------------------------------------------------
    Keys,        \* the constructor's argument; the model keeps it until the
                 \* first key update and then forgets it (<<>>)
    IsMaxHeap,   \* the constructor's argument
    m_Nodes,     \* vector of <<key, element>>, the heap tree
    m_Perm,      \* m_Perm[e] = position of element e in m_Nodes
    m_Sign,      \* +1 min-heap, -1 max-heap
    hpc,         \* where the heap's control is: "ctor", "idle", "MoveUp", "MoveDown"
    hv,          \* the local v of the running MoveUp / MoveDown
    hret,        \* where the running MoveUp returns to: "ctor" or "idle"
    hiter,       \* parity of the number of iterations the running sift loop
                 \* has executed (0 when no loop runs)
    hlast,       \* the last call of DecreaseKey / IncreaseKey: its arguments,
                 \* its outcome and the container as it was when it was made
    mir,         \* two more cut::MinHeap objects run side by side: x, a
                 \* max-heap over keys K, and y, a min-heap over the keys -K,
                 \* with the name of the last call made on x
    \* ---- adjacency lists ----------------------------------------------
    conns,       \* the connection list given to a constructor
    fal,         \* a cut::AdjacencyList (the object the mutations act on)
    forigin,     \* how fal was constructed: "none", "N", "Conns", "Copy"
    cal,         \* a cut::CompatAdjacencyList
    cfrom,       \* what cal was constructed from: "none", "Conns", "fal"
    fal2,        \* a cut::AdjacencyList constructed from another container
    alast,       \* the last mutation called on fal: which one, and the error
                 \* it signalled ("none" when it returned)
    dup,         \* the last copy made of fal or cal by a copy constructor or
                 \* by operator=: which operation, its source, and the result
    \* ---- cut::Timer, named timers and loggers -------------------------
    timer,       \* one cut::Timer object: m_IsPause, m_Start, m_Tot,
                 \* m_CPUStart, m_CPUTot
    clock,       \* what the clocks read: now is system_clock::now() and cpu
                 \* is clock(), both in ticks
    tlast,       \* the last call made on timer, with the number of ticks
                 \* of each clock during which timer was running since its
                 \* last Reset
    m_Timers,    \* the static map cut::Timer::m_Timers, name -> Timer
    m_Logs,      \* the static map cut::Logger::m_Logs, name -> Logger
    rlast        \* the last call made on one of the two maps: the
                 \* operation, the name, and the error it signalled

heapVars == <<Keys, IsMaxHeap, m_Nodes, m_Perm, m_Sign, hpc, hv, hret, hiter, hlast,
             mir>>

adjVars == <<conns, fal, forigin, cal, cfrom, fal2, alast, dup>>

timeVars == <<timer, clock, tlast, m_Timers, m_Logs, rlast>>

vars == <<Keys, IsMaxHeap, m_Nodes, m_Perm, m_Sign, hpc, hv, hret, hiter, hlast, mir,
          conns, fal, forigin, cal, cfrom, fal2, alast, dup,
          timer, clock, tlast, m_Timers, m_Logs, rlast>>

\* ------------------------------------------------------------------------
\* Helpers for 0-based vectors
\* ------------------------------------------------------------------------
At(s, i) == s[i + 1]

SwapAtOverwriting(s, i, j) == [s EXCEPT ![i + 1] = s[j + 1]]

SwapAt(s, i, j) == [s EXCEPT ![i + 1] = s[j + 1], ![j + 1] = s[i + 1]]

RECURSIVE SeqsUpTo(_, _)
SeqsUpTo(S, n) ==
    IF n = 0 THEN {<<>>}
    ELSE LET prev == SeqsUpTo(S, n - 1)
         IN  prev \cup {Append(s, x) : s \in {t \in prev : Len(t) = n - 1}, x \in S}

\* ------------------------------------------------------------------------
\* Error signalling (cut/excepts)
\* ------------------------------------------------------------------------
\* The outcome of CUTCheckLess(x, ub): the error it throws, or "none".
CUTCheckLessWrongKind(x, ub) == IF x >= ub THEN "FailedAssertion" ELSE "none"

CUTCheckLess(x, ub) == IF x >= ub THEN "OutOfRange" ELSE "none"

\* The outcome of CUTCheckGreater(x, lb).
CUTCheckGreater(x, lb) == IF x <= lb THEN "OutOfRange" ELSE "none"

\* The outcome of CUTCheckGEQ(x, lb).
CUTCheckGEQWrongKind(x, lb) == IF x < lb THEN "FailedAssertion" ELSE "none"

CUTCheckGEQ(x, lb) == IF x < lb THEN "OutOfRange" ELSE "none"

\* The outcome of CUTAssert(expr).
CUTAssertNever(expr) == "none"

CUTAssert(expr) == IF ~expr THEN "FailedAssertion" ELSE "none"

\* The first error thrown by a sequence of checks, "none" when all pass.
RECURSIVE FirstError(_)
FirstError(checks) ==
    IF checks = <<>> THEN "none"
    ELSE IF Head(checks) # "none" THEN Head(checks)
    ELSE FirstError(Tail(checks))

\* ------------------------------------------------------------------------
\* cut::BaseAdjacencyList and its two implementations, as values
\* ------------------------------------------------------------------------
\* No object (not constructed).
NoObject == [class |-> "none"]

\* A constructor that threw: no object exists.
Thrown(e) == [class |-> "throws", err |-> e]

\* A std::vector with the elements f[1], ..., f[n], as a sequence.
RECURSIVE VecOf(_, _)
VecOf(f, n) == IF n = 0 THEN <<>> ELSE Append(VecOf(f, n - 1), f[n])

Vec(f) == VecOf(f, Len(f))

MkFAL(adj, n) ==
    [class |-> "AdjacencyList", m_Adj |-> Vec(adj), m_NConnections |-> n]

MkCAL(adj, idx) ==
    [class |-> "CompatAdjacencyList", m_Adj |-> Vec(adj), m_Idx |-> Vec(idx)]

IsObject(o) == o.class \in {"AdjacencyList", "CompatAdjacencyList"}

\* std::vector::resize: truncate, or extend with value-initialised elements.
Resize(s, n, fill) == [k \in 1..n |-> IF k <= Len(s) THEN s[k] ELSE fill]

\* std::find(begin, end, j) != end
ContainsButLast(s, j) == \E k \in 1..(Len(s) - 1) : s[k] = j

Contains(s, j) == \E k \in 1..Len(s) : s[k] = j

\* The 0-based position std::find returns (Len(s) for end()).
FindPosFront(s, j) == 0

RECURSIVE FindPos(_, _)
FindPos(s, j) ==
    IF s = <<>> THEN 0
    ELSE IF Head(s) = j THEN 0
    ELSE 1 + FindPos(Tail(s), j)

\* vector::emplace(begin + idx, j) and vector::erase(begin + idx)
InsertAtEnd(s, idx, x) == Append(s, x)

InsertAt(s, idx, x) == SubSeq(s, 1, idx) \o <<x>> \o SubSeq(s, idx + 1, Len(s))

EraseAtEnd(s, idx) == SubSeq(s, 1, Len(s) - 1)

EraseAt(s, idx) == SubSeq(s, 1, idx) \o SubSeq(s, idx + 2, Len(s))

\* The virtual methods of the interface: NumNodes, NumConnections,
\* NumAdjacents and GetAdjacent; the last two give <<error, value>>.
NumNodes(o) ==
    IF o.class = "AdjacencyList" THEN Len(o.m_Adj) ELSE Len(o.m_Idx) - 1

NumConnections(o) ==
    IF o.class = "AdjacencyList" THEN o.m_NConnections ELSE Len(o.m_Adj)

CheckNode(o, i) == FirstError(<<CUTCheckGEQ(i, 0), CUTCheckLess(i, NumNodes(o))>>)

NumAdjacents(o, i) ==
    IF CheckNode(o, i) # "none" THEN <<CheckNode(o, i), 0>>
    ELSE IF o.class = "AdjacencyList" THEN <<"none", Len(At(o.m_Adj, i))>>
    ELSE <<"none", At(o.m_Idx, i + 1) - At(o.m_Idx, i)>>

CheckIndex(o, i, idx) ==
    IF CheckNode(o, i) # "none" THEN CheckNode(o, i)
    ELSE FirstError(<<CUTCheckGEQ(idx, 0), CUTCheckLess(idx, NumAdjacents(o, i)[2])>>)

GetAdjacent(o, i, idx) ==
    IF CheckIndex(o, i, idx) # "none" THEN <<CheckIndex(o, i, idx), 0>>
    ELSE IF o.class = "AdjacencyList" THEN <<"none", At(At(o.m_Adj, i), idx)>>
    ELSE <<"none", At(o.m_Adj, At(o.m_Idx, i) + idx)>>

\* The adjacents of node i read through the interface, in order.
AdjacentsOfButLast(o, i) ==
    [k \in 1..(NumAdjacents(o, i)[2] - 1) |-> GetAdjacent(o, i, k - 1)[2]]

AdjacentsOf(o, i) ==
    [k \in 1..NumAdjacents(o, i)[2] |-> GetAdjacent(o, i, k - 1)[2]]

\* ---- cut::AdjacencyList: the mutations, as <<error, object after>> ------
AddNodeTo(o) == <<"none", [o EXCEPT !.m_Adj = Append(@, <<>>)]>>

InsertNodeToEnd(o, i) ==
    IF CheckNode(o, i) # "none" THEN <<CheckNode(o, i), o>>
    ELSE <<"none", [o EXCEPT !.m_Adj = Append(@, <<>>)]>>

InsertNodeTo(o, i) ==
    IF CheckNode(o, i) # "none" THEN <<CheckNode(o, i), o>>
    ELSE <<"none", [o EXCEPT !.m_Adj = InsertAt(@, i, <<>>)]>>

SwapNodesOfCopying(o, i, j) ==
    IF FirstError(<<CheckNode(o, i), CheckNode(o, j)>>) # "none"
    THEN <<FirstError(<<CheckNode(o, i), CheckNode(o, j)>>), o>>
    ELSE <<"none", [o EXCEPT !.m_Adj[i + 1] = o.m_Adj[j + 1]]>>

SwapNodesOf(o, i, j) ==
    IF FirstError(<<CheckNode(o, i), CheckNode(o, j)>>) # "none"
    THEN <<FirstError(<<CheckNode(o, i), CheckNode(o, j)>>), o>>
    ELSE <<"none", [o EXCEPT !.m_Adj = SwapAt(@, i, j)]>>

RemoveNodeOf(o, i) ==
    IF CheckNode(o, i) # "none" THEN <<CheckNode(o, i), o>>
    ELSE <<"none", [o EXCEPT !.m_Adj = EraseAt(@, i)]>>

AddAdjacentTo(o, i, j) ==
    IF CheckNode(o, i) # "none" THEN <<CheckNode(o, i), o>>
    ELSE IF CUTAssert(~Contains(At(o.m_Adj, i), j)) # "none"
    THEN <<"FailedAssertion", o>>
    ELSE <<"none", [o EXCEPT !.m_Adj[i + 1] = Append(@, j)]>>

InsertAdjacentTo(o, i, j, idx) ==
    IF CheckIndex(o, i, idx) # "none" THEN <<CheckIndex(o, i, idx), o>>
    ELSE IF CUTAssert(~Contains(At(o.m_Adj, i), j)) # "none"
    THEN <<"FailedAssertion", o>>
    ELSE <<"none", [o EXCEPT !.m_Adj[i + 1] = InsertAt(@, idx, j)]>>

UpdateAdjacentOfUnasserted(o, i, j, idx) ==
    IF CheckIndex(o, i, idx) # "none" THEN <<CheckIndex(o, i, idx), o>>
    ELSE <<"none", [o EXCEPT !.m_Adj[i + 1][idx + 1] = j]>>

UpdateAdjacentOf(o, i, j, idx) ==
    IF CheckIndex(o, i, idx) # "none" THEN <<CheckIndex(o, i, idx), o>>
    ELSE IF At(At(o.m_Adj, i), idx) = j THEN <<"none", o>>
    ELSE IF CUTAssert(~Contains(At(o.m_Adj, i), j)) # "none"
    THEN <<"FailedAssertion", o>>
    ELSE <<"none", [o EXCEPT !.m_Adj[i + 1][idx + 1] = j]>>

ReplaceAdjacentOf(o, i, j, k) ==
    IF CheckNode(o, i) # "none" THEN <<CheckNode(o, i), o>>
    ELSE IF CUTAssert(~Contains(At(o.m_Adj, i), k)) # "none"
    THEN <<"FailedAssertion", o>>
    ELSE IF CUTAssert(FindPos(At(o.m_Adj, i), j) # Len(At(o.m_Adj, i))) # "none"
    THEN <<"FailedAssertion", o>>
    ELSE <<"none", [o EXCEPT !.m_Adj[i + 1][FindPos(At(o.m_Adj, i), j) + 1] = k]>>

RemoveAdjacentOfFront(o, i, idx) ==
    IF CheckIndex(o, i, idx) # "none" THEN <<CheckIndex(o, i, idx), o>>
    ELSE <<"none", [o EXCEPT !.m_Adj[i + 1] = EraseAt(@, 0)]>>

RemoveAdjacentOf(o, i, idx) ==
    IF CheckIndex(o, i, idx) # "none" THEN <<CheckIndex(o, i, idx), o>>
    ELSE <<"none", [o EXCEPT !.m_Adj[i + 1] = EraseAt(@, idx)]>>

\* ---- cut::AdjacencyList: the constructors ------------------------------
\* AdjacencyList(int N)
AdjacencyListN(N) == MkFAL([k \in 1..N |-> <<>>], 0)

\* The loop "for c : Connections: try AddAdjacent(c) catch {}".
RECURSIVE AddAllIgnoringErrors(_, _)
AddAllIgnoringErrors(o, Connections) ==
    IF Connections = <<>> THEN o
    ELSE AddAllIgnoringErrors(
             AddAdjacentTo(o, Head(Connections)[1], Head(Connections)[2])[2],
             Tail(Connections))

RECURSIVE MaxNodeOverAdjacents(_)
MaxNodeOverAdjacents(Connections) ==
    IF Connections = <<>> THEN 0
    ELSE LET m == MaxNodeOverAdjacents(Tail(Connections))
             n == Head(Connections)[2] + 1
         IN  IF n > m THEN n ELSE m

RECURSIVE MaxNodePlusOne(_)
MaxNodePlusOne(Connections) ==
    IF Connections = <<>> THEN 0
    ELSE LET m == MaxNodePlusOne(Tail(Connections))
             n == Head(Connections)[1] + 1
         IN  IF n > m THEN n ELSE m

AdjacencyListConnsUncounted(Connections) ==
    LET NNodes == MaxNodePlusOne(Connections)
    IN  AddAllIgnoringErrors(MkFAL([k \in 1..NNodes |-> <<>>], 0), Connections)

\* AdjacencyList(const std::vector<std::pair<int,int>>& Connections)
AdjacencyListConns(Connections) ==
    LET NNodes == MaxNodePlusOne(Connections)
    IN  AddAllIgnoringErrors(
            MkFAL([k \in 1..NNodes |-> <<>>], Len(Connections)), Connections)

\* AdjacencyList(const BaseAdjacencyList& AL): the copy of the fields when
\* AL is an AdjacencyList, followed in every case by the walk of the
\* interface (the try block does not return).
AdjacencyListBase(AL) ==
    LET adj0 == IF AL.class = "AdjacencyList" THEN AL.m_Adj ELSE <<>>
        NNodes == NumNodes(AL)
    IN  IF NNodes < 0 THEN Thrown("length_error")
        ELSE MkFAL([k \in 1..NNodes |->
                        Resize(adj0, NNodes, <<>>)[k] \o AdjacentsOf(AL, k - 1)],
                   NumConnections(AL))

\* AdjacencyList::operator=(const BaseAdjacencyList& AL) on the list T: the
\* copy of the fields when AL is an AdjacencyList, followed in every case by
\* the walk of the interface, which resizes m_Adj and appends to what its
\* elements hold.
AdjacencyListAssign(T, AL) ==
    LET adj0 == IF AL.class = "AdjacencyList" THEN AL.m_Adj ELSE T.m_Adj
        NNodes == NumNodes(AL)
    IN  IF NNodes < 0 THEN Thrown("length_error")
        ELSE MkFAL([k \in 1..NNodes |->
                        Resize(adj0, NNodes, <<>>)[k] \o AdjacentsOf(AL, k - 1)],
                   NumConnections(AL))

\* ---- cut::CompatAdjacencyList: the constructors --------------------------
\* std::sort on pairs: lexicographic order.
PairLess(a, b) == a[1] < b[1] \/ (a[1] = b[1] /\ a[2] < b[2])

RECURSIVE InsertSorted(_, _)
InsertSorted(s, x) ==
    IF s = <<>> THEN <<x>>
    ELSE IF PairLess(x, Head(s)) THEN <<x>> \o s
    ELSE <<Head(s)>> \o InsertSorted(Tail(s), x)

SortPairsKeepsOrder(s) == s

RECURSIVE SortPairs(_)
SortPairs(s) ==
    IF s = <<>> THEN <<>> ELSE InsertSorted(SortPairs(Tail(s)), Head(s))

\* One iteration of "while (Node > CurNode)": m_Idx[CurNode + 1] = m_Idx[CurNode]
\* for the incremented CurNode c.
CarryIdxForgotten(idx, c) == idx

CarryIdx(idx, c) == [idx EXCEPT ![c + 2] = idx[c + 1]]

\* The while loop: <<CurNode, m_Idx>> after it.
RECURSIVE Advance(_, _, _)
Advance(CurNode, idx, Node) ==
    IF Node > CurNode
    THEN Advance(CurNode + 1, CarryIdx(idx, CurNode + 1), Node)
    ELSE <<CurNode, idx>>

\* The for loop over the sorted connections, from the i-th (1-based) on.
RECURSIVE CompatFill(_, _, _, _, _)
CompatFill(Conns, i, CurNode, adj, idx) ==
    IF i > Len(Conns) THEN MkCAL(adj, idx)
    ELSE LET a == Advance(CurNode, idx, Conns[i][1])
         IN  CompatFill(Conns, i + 1, a[1], Append(adj, Conns[i][2]),
                        [a[2] EXCEPT ![a[1] + 2] = @ + 1])

\* CompatAdjacencyList(Connections) for a non-empty list.
CompatAdjacencyListConns(Connections) ==
    LET Conns == SortPairs(Connections)
        NNodes == Conns[Len(Conns)][1] + 1
    IN  CompatFill(Conns, 1, 0, <<>>, [k \in 1..(NNodes + 1) |-> 0])

\* CompatAdjacencyList(Connections) for the empty list: malloc(0) may give a
\* null pointer (CUTCheckNull throws), and otherwise Conns[-1].first is read
\* outside the array: any value g may come back, NNodes = g + 1.
CompatAdjacencyListNoConns(null, g) ==
    IF null THEN Thrown("NullPtr")
    ELSE IF g + 2 < 0 THEN Thrown("length_error")
    ELSE MkCAL(<<>>, [k \in 1..(g + 2) |-> 0])

\* The values read at Conns[-1].first in the model.
Garbage == (0 - 3)..1

\* m_Idx[i + 1] = m_Idx[i] + NAdjs
IdxNextForgetsSum(prev, NAdjs) == NAdjs

IdxNext(prev, NAdjs) == prev + NAdjs

RECURSIVE RunningIdx(_, _, _)
RunningIdx(AL, idx, i) ==
    IF i >= NumNodes(AL) THEN idx
    ELSE RunningIdx(AL,
                    [idx EXCEPT ![i + 2] = IdxNext(idx[i + 1], NumAdjacents(AL, i)[2])],
                    i + 1)

RECURSIVE AllAdjacents(_, _)
AllAdjacents(AL, i) ==
    IF i >= NumNodes(AL) THEN <<>>
    ELSE AdjacentsOf(AL, i) \o AllAdjacents(AL, i + 1)

\* CompatAdjacencyList(const BaseAdjacencyList& AL): the copy of the fields
\* when AL is a CompatAdjacencyList, followed in every case by the walk of
\* the interface (the try block does not return).
CompatAdjacencyListBase(AL) ==
    LET same == AL.class = "CompatAdjacencyList"
        adj0 == IF same THEN AL.m_Adj ELSE <<>>
        idx0 == IF same THEN AL.m_Idx ELSE <<>>
        NNodes == NumNodes(AL)
    IN  IF NNodes + 1 < 0 THEN Thrown("length_error")
        ELSE MkCAL(adj0 \o AllAdjacents(AL, 0),
                   RunningIdx(AL, Resize(idx0, NNodes + 1, 0), 0))

\* CompatAdjacencyList::operator=(const BaseAdjacencyList& AL) on the list T:
\* the copy of the fields when AL is a CompatAdjacencyList, followed in every
\* case by the walk of the interface, which resizes m_Idx and appends to
\* what m_Adj holds.
CompatAdjacencyListAssign(T, AL) ==
    LET same == AL.class = "CompatAdjacencyList"
        adj0 == IF same THEN AL.m_Adj ELSE T.m_Adj
        idx0 == IF same THEN AL.m_Idx ELSE T.m_Idx
        NNodes == NumNodes(AL)
    IN  IF NNodes + 1 < 0 THEN Thrown("length_error")
        ELSE MkCAL(adj0 \o AllAdjacents(AL, 0),
                   RunningIdx(AL, Resize(idx0, NNodes + 1, 0), 0))

\* The record kept of a mutation called on fal.
ACall(op, err) == [op |-> op, err |-> err]

NoACall == [op |-> "none", err |-> "none"]

\* The record kept of a copy: op is the operation, src the variable that
\* holds its argument, obj the object constructed or assigned to.
DupCall(op, src, obj) == [op |-> op, src |-> src, obj |-> obj]

NoDup == [op |-> "none", src |-> "none", obj |-> NoObject]

\* The adjacency variables before any constructor has run.
AdjUnused ==
    /\ conns = <<>>
    /\ fal = NoObject
    /\ forigin = "none"
    /\ cal = NoObject
    /\ cfrom = "none"
    /\ fal2 = NoObject
    /\ alast = NoACall
    /\ dup = NoDup

\* ------------------------------------------------------------------------
\* cut::Timer
\* ------------------------------------------------------------------------
\* A Timer object. m_Start and m_Tot are in ticks of system_clock, m_CPUStart
\* and m_CPUTot in ticks of clock().
TimerObject(IsPause, Start, Tot, CPUStart, CPUTot) ==
    [m_IsPause |-> IsPause, m_Start |-> Start, m_Tot |-> Tot,
     m_CPUStart |-> CPUStart, m_CPUTot |-> CPUTot]

\* What the two clocks read.
Clock(now, cpu) == [now |-> now, cpu |-> cpu]

\* Timer::IsPaused
IsPaused(t) == t.m_IsPause

\* Timer::Start on t when the clocks read c, without the test that makes a
\* call on a running timer return at once.
StartOfRestarting(t, c) ==
    [t EXCEPT !.m_IsPause = FALSE, !.m_Start = c.now, !.m_CPUStart = c.cpu]

\* Timer::Start on t when the clocks read c.
StartOf(t, c) ==
    IF ~IsPaused(t)
    THEN t
    ELSE [t EXCEPT !.m_IsPause = FALSE, !.m_Start = c.now, !.m_CPUStart = c.cpu]

\* Timer::Pause on t when the clocks read c.
PauseOf(t, c) ==
    IF IsPaused(t)
    THEN t
    ELSE [t EXCEPT !.m_Tot = t.m_Tot + (c.now - t.m_Start),
                   !.m_CPUTot = t.m_CPUTot + (c.cpu - t.m_CPUStart),
                   !.m_IsPause = TRUE]

\* Timer::Reset(Restart) on t when the clocks read c.
ResetOf(t, Restart, c) ==
    LET r == [t EXCEPT !.m_Tot = 0, !.m_CPUTot = 0, !.m_IsPause = TRUE]
    IN  IF Restart THEN StartOf(r, c) ELSE r

\* The values an uninitialized clock_t may hold.
Indeterminate == {0, MaxTime}

\* Timer::Timer(StartNow) when the clocks read c: the members are default
\* initialized (m_Start is the epoch, m_CPUStart holds garbage) and Reset
\* runs on them.
TimerOf(StartNow, c, garbage) ==
    ResetOf(TimerObject(TRUE, 0, 0, garbage, 0), StartNow, c)

\* Timer::GetTime, in ticks of system_clock (nanoseconds), when the clocks
\* read c.
GetTime(t, c) ==
    IF ~IsPaused(t) THEN t.m_Tot + (c.now - t.m_Start) ELSE t.m_Tot

\* Timer::GetCPUTime, in ticks of clock(), when the clocks read c.
GetCPUTime(t, c) ==
    IF ~IsPaused(t) THEN t.m_CPUTot + (c.cpu - t.m_CPUStart) ELSE t.m_CPUTot

\* The record kept of a call on timer: paused is what IsPaused() returned
\* when the call was made, ran and cpuran count the ticks of
\* system_clock and of clock() that passed while timer was running since its
\* last Reset (or its construction).
TCall(op, paused, ran, cpuran) ==
    [op |-> op, paused |-> paused, ran |-> ran, cpuran |-> cpuran]

NoTCall == TCall("none", TRUE, 0, 0)

\* ------------------------------------------------------------------------
\* The named timers and loggers
\* ------------------------------------------------------------------------
\* The names and the arguments used in the calls.
Names == {"first", "second"}
LogFiles == {"first.log", "second.log"}
LogTypes == {"ALL", "IMPORTANT"}

\* A std::unordered_map as a function from its keys; find(Name) != end().
EmptyMap == [n \in {} |-> 0]
Found(map, Name) == Name \in DOMAIN map
Emplace(map, Name, value) ==
    [n \in DOMAIN map \cup {Name} |-> IF n = Name THEN value ELSE map[n]]
Erase(map, Name) == [n \in DOMAIN map \ {Name} |-> map[n]]

\* Timer::AttachTimer(Name, StartNow) on the map T: <<error, map>>.
AttachTimerOf(T, Name, StartNow, c, garbage) ==
    IF CUTAssert(~Found(T, Name)) # "none"
    THEN <<"FailedAssertion", T>>
    ELSE <<"none", Emplace(T, Name, TimerOf(StartNow, c, garbage))>>

\* Timer::GetTimer(Name) on the map T: <<error, map>>; operator[] inserts
\* nothing, the name being present.
GetTimerOf(T, Name) ==
    IF CUTAssert(Found(T, Name)) # "none"
    THEN <<"FailedAssertion", T>>
    ELSE <<"none", T>>

\* Timer::DeleteTimer(Name) without the erase.
DeleteTimerOfKeeping(T, Name) ==
    IF CUTAssert(Found(T, Name)) # "none"
    THEN <<"FailedAssertion", T>>
    ELSE <<"none", T>>

\* Timer::DeleteTimer(Name) on the map T: <<error, map>>.
DeleteTimerOf(T, Name) ==
    IF CUTAssert(Found(T, Name)) # "none"
    THEN <<"FailedAssertion", T>>
    ELSE <<"none", Erase(T, Name)>>

\* Logger::Logger(LogFile, Mask, WithTimestamps): <<error, object>>. The
\* constructor opens the file; is_open is whether the stream opened.
LoggerOf(LogFile, Mask, WithTimestamps, is_open) ==
    <<CUTAssert(is_open),
      [m_Filename |-> LogFile, m_Mask |-> Mask, m_Timestamp |-> WithTimestamps]>>

\* Logger::AttachLogger(Name, LogFile, Mask, WithTimestamp) on the map L:
\* <<error, map>>. emplace constructs the Logger; when its constructor
\* throws, nothing is inserted.
AttachLoggerOf(L, Name, LogFile, Mask, WithTimestamp, is_open) ==
    LET made == LoggerOf(LogFile, Mask, WithTimestamp, is_open)
    IN  IF CUTAssert(~Found(L, Name)) # "none"
        THEN <<"FailedAssertion", L>>
        ELSE IF made[1] # "none"
             THEN <<made[1], L>>
             ELSE <<"none", Emplace(L, Name, made[2])>>

\* Logger::GetLogger(Name) on the map L: <<error, map>>.
GetLoggerOf(L, Name) ==
    IF CUTAssert(Found(L, Name)) # "none"
    THEN <<"FailedAssertion", L>>
    ELSE <<"none", L>>

\* Logger::DeleteLogger(Name) on the map L: <<error, map>>.
DeleteLoggerOf(L, Name) ==
    IF CUTAssert(Found(L, Name)) # "none"
    THEN <<"FailedAssertion", L>>
    ELSE <<"none", Erase(L, Name)>>

\* The record kept of a call on one of the two maps; opened is whether the
\* log file of an AttachLogger could be opened (TRUE for the other calls).
RCall(op, name, err, opened) ==
    [op |-> op, name |-> name, err |-> err, opened |-> opened]

NoRCall == RCall("none", "none", "none", TRUE)

\* The timer variables before any Timer or Logger is made.
TimeUnused ==
    /\ timer = TimerObject(TRUE, 0, 0, 0, 0)
    /\ clock = Clock(0, 0)
    /\ tlast = NoTCall
    /\ m_Timers = EmptyMap
    /\ m_Logs = EmptyMap
    /\ rlast = NoRCall

\* ------------------------------------------------------------------------
\* cut::MinHeap
\* ------------------------------------------------------------------------
Size == Len(m_Nodes)

NoRet == <<0, 0>>

\* The record kept of a call of DecreaseKey or IncreaseKey.
Call(op, e, d, err) ==
    [op |-> op, elem |-> e, delta |-> d, err |-> err,
     nodes |-> m_Nodes, perm |-> m_Perm]

\* FindMin(): <<error, <<key, element>>>>.
FindMinKeepsStoredSign ==
    IF CUTCheckGreater(Size, 0) # "none"
    THEN <<CUTCheckGreater(Size, 0), NoRet>>
    ELSE <<"none", <<At(m_Nodes, 0)[1], At(m_Nodes, 0)[2]>>>>

FindMin ==
    IF CUTCheckGreater(Size, 0) # "none"
    THEN <<CUTCheckGreater(Size, 0), NoRet>>
    ELSE <<"none", <<m_Sign * At(m_Nodes, 0)[1], At(m_Nodes, 0)[2]>>>>

\* GetKey(Element) on a container with the given fields: <<error, key>>.
GetKeyOf(nodes, perm, sign, Element) ==
    IF CUTCheckLess(Element, Len(nodes)) # "none"
    THEN <<CUTCheckLess(Element, Len(nodes)), 0>>
    ELSE <<"none", sign * At(nodes, At(perm, Element))[1]>>

GetKey(Element) == GetKeyOf(m_Nodes, m_Perm, m_Sign, Element)

\* One iteration of the loop of MoveUp (or its exit).
MoveUpBreakWhenGreater(p, v) == At(m_Nodes, p)[1] > At(m_Nodes, v)[1]

MoveUpBreakOnTie(p, v) == At(m_Nodes, p)[1] <= At(m_Nodes, v)[1]

MoveUpBreak(p, v) == At(m_Nodes, p)[1] < At(m_Nodes, v)[1]

MoveUp ==
    /\ hpc = "MoveUp"
    /\ IF hv = 0
       THEN /\ hpc' = hret
            /\ hiter' = 0
            /\ UNCHANGED <<m_Nodes, m_Perm, hv>>
       ELSE LET p == hv \div 2
            IN  IF MoveUpBreak(p, hv)
                THEN /\ hpc' = hret
                     /\ hiter' = 0
                     /\ UNCHANGED <<m_Nodes, m_Perm, hv>>
                ELSE LET swapped == SwapAt(m_Nodes, p, hv)
                     IN  /\ m_Nodes' = swapped
                         /\ m_Perm' = SwapAt(m_Perm, At(swapped, p)[2], At(swapped, hv)[2])
                         /\ hv' = p
                         /\ hiter' = 1 - hiter
                         /\ UNCHANGED hpc
    /\ UNCHANGED <<Keys, IsMaxHeap, m_Sign, hret, hlast, mir>>
    /\ UNCHANGED adjVars
    /\ UNCHANGED timeVars

MoveDownChildFirst(v) == 2 * v

\* The child MoveDown compares the node at v with.
MoveDownChild(v) ==
    LET u == 2 * v
    IN  IF u + 1 < Size /\ At(m_Nodes, u)[1] > At(m_Nodes, u + 1)[1]
        THEN u + 1
        ELSE u

\* One iteration of the loop of MoveDown (or its exit).
MoveDown ==
    /\ hpc = "MoveDown"
    /\ IF 2 * hv >= Size
       THEN /\ hpc' = "idle"
            /\ hiter' = 0
            /\ UNCHANGED <<m_Nodes, m_Perm, hv>>
       ELSE LET u == MoveDownChild(hv)
            IN  IF At(m_Nodes, u)[1] > At(m_Nodes, hv)[1]
                THEN /\ hpc' = "idle"
                     /\ hiter' = 0
                     /\ UNCHANGED <<m_Nodes, m_Perm, hv>>
                ELSE LET swapped == SwapAt(m_Nodes, hv, u)
                     IN  /\ m_Nodes' = swapped
                         /\ m_Perm' = SwapAt(m_Perm, At(swapped, hv)[2], At(swapped, u)[2])
                         /\ hv' = u
                         /\ hiter' = 1 - hiter
                         /\ UNCHANGED hpc
    /\ UNCHANGED <<Keys, IsMaxHeap, m_Sign, hret, hlast, mir>>
    /\ UNCHANGED adjVars
    /\ UNCHANGED timeVars

\* Insert(Key), up to its call of MoveUp.
InsertStoredKeyUnsigned(Key) == Key

InsertStoredKey(Key) == m_Sign * Key

Insert(Key) ==
    /\ m_Perm' = Append(m_Perm, Len(m_Nodes))
    /\ m_Nodes' = Append(m_Nodes, <<InsertStoredKey(Key), Len(m_Nodes)>>)
    /\ hv' = Len(m_Nodes)
    /\ hpc' = "MoveUp"

\* The constructor's loop over Keys; the object is usable when it is over.
MinHeap ==
    /\ hpc = "ctor"
    /\ IF Len(m_Nodes) < Len(Keys)
       THEN Insert(Keys[Len(m_Nodes) + 1])
       ELSE /\ hpc' = "idle"
            /\ UNCHANGED <<m_Nodes, m_Perm, hv>>
    /\ UNCHANGED <<Keys, IsMaxHeap, m_Sign, hret, hiter, hlast, mir>>
    /\ UNCHANGED adjVars
    /\ UNCHANGED timeVars

NoCall == [op |-> "none", elem |-> 0, delta |-> 0, err |-> "none",
           nodes |-> <<>>, perm |-> <<>>]

KeyInRange(k) == KeyLo <= k /\ k <= KeyHi

\* The stored key after DecreaseKey's update.
DecreasedStoredUnsigned(stored, Decrement) == stored - Decrement

DecreasedStored(stored, Decrement) == stored - m_Sign * Decrement

DecreaseKey(Element, Decrement) ==
    /\ hpc = "idle"
    /\ hlast = NoCall
    /\ IF CUTCheckLess(Element, Size) # "none"
       THEN /\ hlast' = Call("DecreaseKey", Element, Decrement,
                             CUTCheckLess(Element, Size))
            /\ UNCHANGED <<m_Nodes, m_Perm, hpc, hv>>
       ELSE LET v == At(m_Perm, Element)
                k == DecreasedStored(At(m_Nodes, v)[1], Decrement)
            IN  /\ KeyInRange(m_Sign * k)
                /\ hlast' = Call("DecreaseKey", Element, Decrement, "none")
                /\ m_Nodes' = [m_Nodes EXCEPT ![v + 1][1] = k]
                /\ hv' = v
                /\ hpc' = IF m_Sign > 0 THEN "MoveUp" ELSE "MoveDown"
                /\ UNCHANGED m_Perm
    /\ Keys' = <<>>
    /\ hret' = "idle"
    /\ UNCHANGED <<IsMaxHeap, m_Sign, hiter, mir>>
    /\ UNCHANGED adjVars
    /\ UNCHANGED timeVars

IncreaseKey(Element, Increment) ==
    /\ hpc = "idle"
    /\ hlast = NoCall
    /\ IF CUTCheckLess(Element, Size) # "none"
       THEN /\ hlast' = Call("IncreaseKey", Element, Increment,
                             CUTCheckLess(Element, Size))
            /\ UNCHANGED <<m_Nodes, m_Perm, hpc, hv>>
       ELSE LET v == At(m_Perm, Element)
                k == At(m_Nodes, v)[1] + m_Sign * Increment
            IN  /\ KeyInRange(m_Sign * k)
                /\ hlast' = Call("IncreaseKey", Element, Increment, "none")
                /\ m_Nodes' = [m_Nodes EXCEPT ![v + 1][1] = k]
                /\ hv' = v
                /\ hpc' = IF m_Sign > 0 THEN "MoveDown" ELSE "MoveUp"
                /\ UNCHANGED m_Perm
    /\ Keys' = <<>>
    /\ hret' = "idle"
    /\ UNCHANGED <<IsMaxHeap, m_Sign, hiter, mir>>
    /\ UNCHANGED adjVars
    /\ UNCHANGED timeVars

\* The caller has looked at the outcome of the last call (it returned, or
\* the exception was caught) and goes on.
CallHandled ==
    /\ hpc = "idle"
    /\ hlast # NoCall
    /\ hlast' = NoCall
    /\ UNCHANGED <<Keys, IsMaxHeap, m_Nodes, m_Perm, m_Sign, hpc, hv, hret, hiter, mir>>
    /\ UNCHANGED adjVars
    /\ UNCHANGED timeVars

\* ------------------------------------------------------------------------
\* cut::MinHeap as a value: the fields of one object, where its control is
\* (pc, v, ret as hpc, hv, hret above), and one step of its code.
\* ------------------------------------------------------------------------
NegatedKeys(K) == [k \in 1..Len(K) |-> 0 - K[k]]

StoredOfUnsigned(sign, Key) == Key

\* m_Sign * Key, the key Insert stores.
StoredOf(sign, Key) == sign * Key

\* The object when the constructor has set m_Sign and not yet inserted.
HeapObject(K, IsMax) ==
    [Keys |-> K, m_Sign |-> IF IsMax THEN 0 - 1 ELSE 1,
     m_Nodes |-> <<>>, m_Perm |-> <<>>, pc |-> "ctor", v |-> 0, ret |-> "ctor"]

\* The constructor's loop: Insert the next key, or finish.
MinHeapOf(h) ==
    LET n == Len(h.m_Nodes)
    IN  IF n < Len(h.Keys)
        THEN [h EXCEPT !.m_Perm = Append(@, n),
                       !.m_Nodes = Append(@, <<StoredOf(h.m_Sign, h.Keys[n + 1]), n>>),
                       !.v = n, !.pc = "MoveUp", !.ret = "ctor"]
        ELSE [h EXCEPT !.pc = "idle"]

\* One iteration of MoveUp's loop, or its exit.
MoveUpOf(h) ==
    IF h.v = 0 THEN [h EXCEPT !.pc = h.ret]
    ELSE LET p == h.v \div 2
         IN  IF At(h.m_Nodes, p)[1] < At(h.m_Nodes, h.v)[1]
             THEN [h EXCEPT !.pc = h.ret]
             ELSE LET swapped == SwapAt(h.m_Nodes, p, h.v)
                  IN  [h EXCEPT !.m_Nodes = swapped,
                                !.m_Perm = SwapAt(@, At(swapped, p)[2], At(swapped, h.v)[2]),
                                !.v = p]

\* One iteration of MoveDown's loop, or its exit.
MoveDownOf(h) ==
    LET n == Len(h.m_Nodes)
        l == 2 * h.v
        u == IF l + 1 < n /\ At(h.m_Nodes, l)[1] > At(h.m_Nodes, l + 1)[1]
             THEN l + 1 ELSE l
    IN  IF l >= n THEN [h EXCEPT !.pc = "idle"]
        ELSE IF At(h.m_Nodes, u)[1] > At(h.m_Nodes, h.v)[1]
        THEN [h EXCEPT !.pc = "idle"]
        ELSE LET swapped == SwapAt(h.m_Nodes, h.v, u)
             IN  [h EXCEPT !.m_Nodes = swapped,
                           !.m_Perm = SwapAt(@, At(swapped, h.v)[2], At(swapped, u)[2]),
                           !.v = u]

\* The step the object takes when its control is in the constructor or in
\* a sift loop.
StepOf(h) ==
    IF h.pc = "ctor" THEN MinHeapOf(h)
    ELSE IF h.pc = "MoveUp" THEN MoveUpOf(h)
    ELSE IF h.pc = "MoveDown" THEN MoveDownOf(h)
    ELSE h

\* DecreaseKey and IncreaseKey up to the call of the sift: <<error, object>>.
DecreaseKeyOf(h, Element, Decrement) ==
    IF CUTCheckLess(Element, Len(h.m_Nodes)) # "none"
    THEN <<CUTCheckLess(Element, Len(h.m_Nodes)), h>>
    ELSE LET v == At(h.m_Perm, Element)
         IN  <<"none",
               [h EXCEPT !.m_Nodes[v + 1][1] = @ - h.m_Sign * Decrement,
                         !.v = v, !.ret = "idle",
                         !.pc = IF h.m_Sign > 0 THEN "MoveUp" ELSE "MoveDown"]>>

IncreaseKeyOfUnsigned(h, Element, Increment) ==
    IF CUTCheckLess(Element, Len(h.m_Nodes)) # "none"
    THEN <<CUTCheckLess(Element, Len(h.m_Nodes)), h>>
    ELSE LET v == At(h.m_Perm, Element)
         IN  <<"none",
               [h EXCEPT !.m_Nodes[v + 1][1] = @ + Increment,
                         !.v = v, !.ret = "idle",
                         !.pc = IF h.m_Sign > 0 THEN "MoveDown" ELSE "MoveUp"]>>

IncreaseKeyOf(h, Element, Increment) ==
    IF CUTCheckLess(Element, Len(h.m_Nodes)) # "none"
    THEN <<CUTCheckLess(Element, Len(h.m_Nodes)), h>>
    ELSE LET v == At(h.m_Perm, Element)
         IN  <<"none",
               [h EXCEPT !.m_Nodes[v + 1][1] = @ + h.m_Sign * Increment,
                         !.v = v, !.ret = "idle",
                         !.pc = IF h.m_Sign > 0 THEN "MoveDown" ELSE "MoveUp"]>>

\* FindMin() of the object: <<error, <<key, element>>>>.
FindMinOf(h) ==
    IF CUTCheckGreater(Len(h.m_Nodes), 0) # "none"
    THEN <<CUTCheckGreater(Len(h.m_Nodes), 0), NoRet>>
    ELSE <<"none", <<h.m_Sign * At(h.m_Nodes, 0)[1], At(h.m_Nodes, 0)[2]>>>>

NoMirror == [x |-> [pc |-> "unused"], y |-> [pc |-> "unused"], op |-> "none", err |-> "none"]

InitHeap ==
    /\ TimeUnused
    /\ mir = NoMirror
    /\ Keys \in SeqsUpTo(0..MaxKey0, MaxN)
    /\ IsMaxHeap \in BOOLEAN
    /\ m_Sign = IF IsMaxHeap THEN 0 - 1 ELSE 1
    /\ m_Nodes = <<>>
    /\ m_Perm = <<>>
    /\ hpc = "ctor"
    /\ hv = 0
    /\ hret = "ctor"
    /\ hiter = 0
    /\ hlast = NoCall
    /\ AdjUnused

\* Elements a caller passes: every valid one and one past the end.
Elements == 0..Size

Deltas == 0..MaxDelta

NextHeap ==
    \/ MinHeap
    \/ MoveUp
    \/ MoveDown
    \/ \E e \in Elements, d \in Deltas : DecreaseKey(e, d)
    \/ \E e \in Elements, d \in Deltas : IncreaseKey(e, d)
    \/ CallHandled

SpecHeap == InitHeap /\ [][NextHeap]_vars

\* The sift loops are sequential code: a started iteration is executed.
FairSpecHeap == SpecHeap /\ WF_vars(MoveUp) /\ WF_vars(MoveDown)

\* The heap variables of a program that builds no heap.
HeapUnused ==
    /\ mir = NoMirror
    /\ Keys = <<>>
    /\ IsMaxHeap = FALSE
    /\ m_Sign = 1
    /\ m_Nodes = <<>>
    /\ m_Perm = <<>>
    /\ hpc = "unused"
    /\ hv = 0
    /\ hret = "ctor"
    /\ hiter = 0
    /\ hlast = NoCall

\* ------------------------------------------------------------------------
\* A program on adjacency lists: fal is constructed (with N nodes, from a
\* connection list, or as a copy of a compact list built from a connection
\* list), mutated, then converted to the compact list cal, which is
\* converted back to the mutable list fal2.
\* ------------------------------------------------------------------------
AdjVals == 0..MaxAdj

\* Node arguments: every valid node, and -1 and NumNodes() at most MaxNodes.
NodeArgs == (0 - 1)..MaxNodes

\* Index arguments: every valid index, -1 and the end or past it.
IdxArgs == (0 - 1)..(MaxAdj + 1)

ConnPairs == (0..(MaxNodes - 1)) \X AdjVals

ConnLists == SeqsUpTo(ConnPairs, MaxConns)

\* The test's list: every node i < N joined to N.
Pairs(N) == [i \in 1..N |-> <<i - 1, N>>]

NewN(N) ==
    /\ fal = NoObject /\ cal = NoObject
    /\ fal' = AdjacencyListN(N)
    /\ forigin' = "N"
    /\ UNCHANGED <<conns, cal, cfrom, fal2, alast, dup>>
    /\ UNCHANGED heapVars
    /\ UNCHANGED timeVars

NewConns(Connections) ==
    /\ fal = NoObject /\ cal = NoObject
    /\ fal' = AdjacencyListConns(Connections)
    /\ forigin' = "Conns"
    /\ UNCHANGED <<conns, cal, cfrom, fal2, alast, dup>>
    /\ UNCHANGED heapVars
    /\ UNCHANGED timeVars

NewCompact(Connections) ==
    /\ fal = NoObject /\ cal = NoObject
    /\ Connections # <<>>
    /\ cal' = CompatAdjacencyListConns(Connections)
    /\ cfrom' = "Conns"
    /\ UNCHANGED <<conns, fal, forigin, fal2, alast, dup>>
    /\ UNCHANGED heapVars
    /\ UNCHANGED timeVars

NewCopy ==
    /\ fal = NoObject /\ cfrom = "Conns"
    /\ fal' = AdjacencyListBase(cal)
    /\ forigin' = "Copy"
    /\ UNCHANGED <<conns, cal, cfrom, fal2, alast, dup>>
    /\ UNCHANGED heapVars
    /\ UNCHANGED timeVars

\* A mutation called on fal, with outcome r = <<error, fal after>>.
MutationErasedOnError(op, r) ==
    /\ fal' = IF r[1] # "none" THEN AdjacencyListN(0) ELSE r[2]
    /\ alast' = ACall(op, r[1])
    /\ UNCHANGED <<conns, forigin, cal, cfrom, fal2, dup>>
    /\ UNCHANGED heapVars
    /\ UNCHANGED timeVars

Mutation(op, r) ==
    /\ fal' = r[2]
    /\ alast' = ACall(op, r[1])
    /\ UNCHANGED <<conns, forigin, cal, cfrom, fal2, dup>>
    /\ UNCHANGED heapVars
    /\ UNCHANGED timeVars

\* fal can be mutated: it exists, the caller has dealt with the outcome of
\* the previous call, and the conversion to cal has not been made.
Mutable == IsObject(fal) /\ cfrom # "fal" /\ alast = NoACall

\* The caller has looked at the outcome of the last call (the returned
\* container, or the exception it caught) and goes on.
Handled ==
    /\ alast # NoACall
    /\ alast' = NoACall
    /\ UNCHANGED <<conns, fal, forigin, cal, cfrom, fal2, dup>>
    /\ UNCHANGED heapVars
    /\ UNCHANGED timeVars

AddNode ==
    /\ Mutable
    /\ NumNodes(fal) < MaxNodes
    /\ Mutation("AddNode", AddNodeTo(fal))

InsertNode(i) ==
    /\ Mutable
    /\ NumNodes(fal) < MaxNodes
    /\ Mutation("InsertNode", InsertNodeTo(fal, i))

SwapNodes(i, j) ==
    /\ Mutable
    /\ Mutation("SwapNodes", SwapNodesOf(fal, i, j))

RemoveNode(i) ==
    /\ Mutable
    /\ Mutation("RemoveNode", RemoveNodeOf(fal, i))

AddAdjacent(i, j) ==
    /\ Mutable
    /\ Mutation("AddAdjacent", AddAdjacentTo(fal, i, j))

InsertAdjacent(i, j, idx) ==
    /\ Mutable
    /\ Mutation("InsertAdjacent", InsertAdjacentTo(fal, i, j, idx))

UpdateAdjacent(i, j, idx) ==
    /\ Mutable
    /\ Mutation("UpdateAdjacent", UpdateAdjacentOf(fal, i, j, idx))

ReplaceAdjacent(i, j, k) ==
    /\ Mutable
    /\ Mutation("ReplaceAdjacent", ReplaceAdjacentOf(fal, i, j, k))

RemoveAdjacent(i, idx) ==
    /\ Mutable
    /\ Mutation("RemoveAdjacent", RemoveAdjacentOf(fal, i, idx))

\* CAL = cut::CompatAdjacencyList(FAL)
ToCompact ==
    /\ Mutable
    /\ cal' = CompatAdjacencyListBase(fal)
    /\ cfrom' = "fal"
    /\ UNCHANGED <<conns, fal, forigin, fal2, alast, dup>>
    /\ UNCHANGED heapVars
    /\ UNCHANGED timeVars

\* cut::AdjacencyList FAL2(CAL)
FromCompact ==
    /\ cfrom = "fal" /\ fal2 = NoObject
    /\ fal2' = AdjacencyListBase(cal)
    /\ UNCHANGED <<conns, fal, forigin, cal, cfrom, alast, dup>>
    /\ UNCHANGED heapVars
    /\ UNCHANGED timeVars

InitAdj == AdjUnused /\ HeapUnused /\ TimeUnused

NextAdj ==
    \/ \E N \in 0..MaxNodes : NewN(N)
    \/ \E cs \in ConnLists : NewConns(cs)
    \/ \E cs \in ConnLists : NewCompact(cs)
    \/ NewCopy
    \/ AddNode
    \/ \E i \in NodeArgs : InsertNode(i)
    \/ \E i, j \in NodeArgs : SwapNodes(i, j)
    \/ \E i \in NodeArgs : RemoveNode(i)
    \/ \E i \in NodeArgs, j \in AdjVals : AddAdjacent(i, j)
    \/ \E i \in NodeArgs, j \in AdjVals, idx \in IdxArgs : InsertAdjacent(i, j, idx)
    \/ \E i \in NodeArgs, j \in AdjVals, idx \in IdxArgs : UpdateAdjacent(i, j, idx)
    \/ \E i \in NodeArgs, j, k \in AdjVals : ReplaceAdjacent(i, j, k)
    \/ \E i \in NodeArgs, idx \in IdxArgs : RemoveAdjacent(i, idx)
    \/ Handled
    \/ ToCompact
    \/ FromCompact

SpecAdj == InitAdj /\ [][NextAdj]_vars

\* ------------------------------------------------------------------------
\* The constructors applied to a connection list: the list is drawn, the
\* compact and the mutable list are built from it, and the compact list is
\* copied into a mutable one.
\* ------------------------------------------------------------------------
ConnInputs == ConnLists \cup {Pairs(N) : N \in 1..MaxPairs}

BuildCompact ==
    /\ cal = NoObject
    /\ IF conns = <<>>
       THEN \E null \in BOOLEAN, g \in Garbage :
                cal' = CompatAdjacencyListNoConns(null, g)
       ELSE cal' = CompatAdjacencyListConns(conns)
    /\ cfrom' = "Conns"
    /\ UNCHANGED <<conns, fal, forigin, fal2, alast, dup>>
    /\ UNCHANGED heapVars
    /\ UNCHANGED timeVars

BuildMutable ==
    /\ fal = NoObject
    /\ fal' = AdjacencyListConns(conns)
    /\ forigin' = "Conns"
    /\ UNCHANGED <<conns, cal, cfrom, fal2, alast, dup>>
    /\ UNCHANGED heapVars
    /\ UNCHANGED timeVars

BuildCopy ==
    /\ IsObject(cal) /\ fal2 = NoObject
    /\ fal2' = AdjacencyListBase(cal)
    /\ UNCHANGED <<conns, fal, forigin, cal, cfrom, alast, dup>>
    /\ UNCHANGED heapVars
    /\ UNCHANGED timeVars

InitCtor ==
    /\ TimeUnused
    /\ conns \in ConnInputs
    /\ fal = NoObject
    /\ forigin = "none"
    /\ cal = NoObject
    /\ cfrom = "none"
    /\ fal2 = NoObject
    /\ alast = NoACall
    /\ dup = NoDup
    /\ HeapUnused

\* The source of a copy: the container held by fal or by cal.
Source(src) == IF src = "fal" THEN fal ELSE cal

\* A copy (constructed, or assigned to an existing list) of the container
\* held by src, bound to a const BaseAdjacencyList&; one per run.
Duplicate(op, src, obj) ==
    /\ dup = NoDup
    /\ IsObject(Source(src))
    /\ dup' = DupCall(op, src, obj)
    /\ UNCHANGED <<conns, fal, forigin, cal, cfrom, fal2, alast>>
    /\ UNCHANGED heapVars
    /\ UNCHANGED timeVars

\* cut::AdjacencyList B(AL)
CopyMutable(src) == Duplicate("AdjacencyList", src, AdjacencyListBase(Source(src)))

\* cut::CompatAdjacencyList C(AL)
CopyCompact(src) ==
    Duplicate("CompatAdjacencyList", src, CompatAdjacencyListBase(Source(src)))

\* The lists assigned to: empty ones, and ones that hold adjacents.
AssignTargets ==
    {AdjacencyListN(N) : N \in 0..MaxNodes}
        \cup {AdjacencyListConns(cs) : cs \in SeqsUpTo(ConnPairs, 1)}

\* T = AL, for a cut::AdjacencyList T
Assign(T, src) == Duplicate("operator=", src, AdjacencyListAssign(T, Source(src)))

\* The compact lists assigned to: ones without connections, and ones that
\* hold a connection.
CompactAssignTargets ==
    {CompatAdjacencyListBase(AdjacencyListN(N)) : N \in 0..MaxNodes}
        \cup {CompatAdjacencyListConns(cs) : cs \in SeqsUpTo(ConnPairs, 1) \ {<<>>}}

\* T = AL, for a cut::CompatAdjacencyList T
AssignCompact(T, src) ==
    Duplicate("CompatAdjacencyList::operator=", src,
              CompatAdjacencyListAssign(T, Source(src)))

NextCtor ==
    \/ BuildCompact
    \/ BuildMutable
    \/ BuildCopy
    \/ \E src \in {"fal", "cal"} : CopyMutable(src)
    \/ \E src \in {"fal", "cal"} : CopyCompact(src)
    \/ \E T \in AssignTargets, src \in {"fal", "cal"} : Assign(T, src)
    \/ \E T \in CompactAssignTargets, src \in {"fal", "cal"} : AssignCompact(T, src)

SpecCtor == InitCtor /\ [][NextCtor]_vars

\* ------------------------------------------------------------------------
\* One call of UpdateAdjacent, ReplaceAdjacent or RemoveAdjacent on a list
\* built from a connection list, with three adjacent values to choose from.
\* ------------------------------------------------------------------------
OpVals == 0..OpAdj

OpNodeArgs == (0 - 1)..OpNodes

OpIdxArgs == (0 - 1)..(OpAdj + 1)

OpConnLists == SeqsUpTo((0..(OpNodes - 1)) \X OpVals, OpConns)

InitOp ==
    /\ TimeUnused
    /\ conns \in OpConnLists
    /\ fal = AdjacencyListConns(conns)
    /\ forigin = "Conns"
    /\ cal = NoObject
    /\ cfrom = "none"
    /\ fal2 = NoObject
    /\ alast = NoACall
    /\ dup = NoDup
    /\ HeapUnused

NextOp ==
    \/ \E i \in OpNodeArgs, j \in OpVals, idx \in OpIdxArgs : UpdateAdjacent(i, j, idx)
    \/ \E i \in OpNodeArgs, j, k \in OpVals : ReplaceAdjacent(i, j, k)
    \/ \E i \in OpNodeArgs, idx \in OpIdxArgs : RemoveAdjacent(i, idx)

SpecOp == InitOp /\ [][NextOp]_vars

\* ------------------------------------------------------------------------
\* A max-heap over keys K and a min-heap over the keys -K, side by side:
\* every IncreaseKey(e, d) on the first is DecreaseKey(e, d) on the second,
\* and the other way round. The two objects share nothing; the model lets
\* them take their steps together.
\* ------------------------------------------------------------------------
MirrorElements == 0..Len(mir.x.m_Nodes)

MirrorAtRest == mir.x.pc = "idle" /\ mir.y.pc = "idle"

\* Both objects execute their next step (an object at rest stays).
MirrorStep ==
    /\ mir.x.pc \in {"ctor", "MoveUp", "MoveDown"} \/ mir.y.pc \in {"ctor", "MoveUp", "MoveDown"}
    /\ mir' = [mir EXCEPT !.x = StepOf(@), !.y = StepOf(@)]
    /\ UNCHANGED <<Keys, IsMaxHeap, m_Nodes, m_Perm, m_Sign, hpc, hv, hret, hiter, hlast>>
    /\ UNCHANGED adjVars
    /\ UNCHANGED timeVars

\* The key of x's element stays in KeyLo..KeyHi.
MirrorKeyInRange(rx, e) ==
    rx[1] = "none" =>
        KeyInRange(GetKeyOf(rx[2].m_Nodes, rx[2].m_Perm, rx[2].m_Sign, e)[2])

MirrorIncrease(e, d) ==
    /\ MirrorAtRest
    /\ MirrorKeyInRange(IncreaseKeyOf(mir.x, e, d), e)
    /\ mir' = [x |-> IncreaseKeyOf(mir.x, e, d)[2],
               y |-> DecreaseKeyOf(mir.y, e, d)[2],
               op |-> "IncreaseKey",
               err |-> IncreaseKeyOf(mir.x, e, d)[1]]
    /\ UNCHANGED <<Keys, IsMaxHeap, m_Nodes, m_Perm, m_Sign, hpc, hv, hret, hiter, hlast>>
    /\ UNCHANGED adjVars
    /\ UNCHANGED timeVars

MirrorDecrease(e, d) ==
    /\ MirrorAtRest
    /\ MirrorKeyInRange(DecreaseKeyOf(mir.x, e, d), e)
    /\ mir' = [x |-> DecreaseKeyOf(mir.x, e, d)[2],
               y |-> IncreaseKeyOf(mir.y, e, d)[2],
               op |-> "DecreaseKey",
               err |-> DecreaseKeyOf(mir.x, e, d)[1]]
    /\ UNCHANGED <<Keys, IsMaxHeap, m_Nodes, m_Perm, m_Sign, hpc, hv, hret, hiter, hlast>>
    /\ UNCHANGED adjVars
    /\ UNCHANGED timeVars

InitMirror ==
    /\ TimeUnused
    /\ \E K \in SeqsUpTo(0..MaxKey0, MirrorN) :
          mir = [x |-> HeapObject(K, TRUE), y |-> HeapObject(NegatedKeys(K), FALSE),
                 op |-> "none", err |-> "none"]
    /\ Keys = <<>>
    /\ IsMaxHeap = FALSE
    /\ m_Sign = 1
    /\ m_Nodes = <<>>
    /\ m_Perm = <<>>
    /\ hpc = "unused"
    /\ hv = 0
    /\ hret = "ctor"
    /\ hiter = 0
    /\ hlast = NoCall
    /\ AdjUnused

NextMirror ==
    \/ MirrorStep
    \/ \E e \in MirrorElements, d \in Deltas : MirrorIncrease(e, d)
    \/ \E e \in MirrorElements, d \in Deltas : MirrorDecrease(e, d)

SpecMirror == InitMirror /\ [][NextMirror]_vars

\* ------------------------------------------------------------------------
\* Pairs of inverse calls. x is the heap the pairs are made on; y is a second
\* heap built from the same keys that receives every call made outside a
\* pair and none of a pair, so that it holds the keys x had before the pair.
\* phase is 1 between the two calls of a pair and 2 after the second.
\* ------------------------------------------------------------------------
KeyCalls == {"IncreaseKey", "DecreaseKey"}

Inverse(op) == IF op = "IncreaseKey" THEN "DecreaseKey" ELSE "IncreaseKey"

\* The call op(e, d) on the object h: <<error, object>>.
KeyCallOf(h, op, e, d) ==
    IF op = "IncreaseKey" THEN IncreaseKeyOf(h, e, d) ELSE DecreaseKeyOf(h, e, d)

HeapsUnused ==
    /\ Keys = <<>>
    /\ IsMaxHeap = FALSE
    /\ m_Sign = 1
    /\ m_Nodes = <<>>
    /\ m_Perm = <<>>
    /\ hpc = "unused"
    /\ hv = 0
    /\ hret = "ctor"
    /\ hiter = 0
    /\ hlast = NoCall

InitPair ==
    /\ TimeUnused
    /\ \E K \in SeqsUpTo(0..MaxKey0, MirrorN), IsMax \in BOOLEAN :
          mir = [x |-> HeapObject(K, IsMax), y |-> HeapObject(K, IsMax),
                 op |-> "none", err |-> "none", elem |-> 0, delta |-> 0, phase |-> 0]
    /\ HeapsUnused
    /\ AdjUnused

\* A call outside a pair, made on both heaps.
CallOnBoth(op, e, d) ==
    /\ MirrorAtRest
    /\ mir.phase \in {0, 2}
    /\ MirrorKeyInRange(KeyCallOf(mir.x, op, e, d), e)
    /\ mir' = [x |-> KeyCallOf(mir.x, op, e, d)[2],
               y |-> KeyCallOf(mir.y, op, e, d)[2],
               op |-> "none", err |-> KeyCallOf(mir.x, op, e, d)[1],
               elem |-> 0, delta |-> 0, phase |-> 0]
    /\ UNCHANGED <<Keys, IsMaxHeap, m_Nodes, m_Perm, m_Sign, hpc, hv, hret, hiter, hlast>>
    /\ UNCHANGED adjVars
    /\ UNCHANGED timeVars

\* The first call of a pair, op(e, d) with a valid element, on x.
PairFirst(op, e, d) ==
    /\ MirrorAtRest
    /\ mir.phase \in {0, 2}
    /\ e < Len(mir.x.m_Nodes)
    /\ MirrorKeyInRange(KeyCallOf(mir.x, op, e, d), e)
    /\ mir' = [mir EXCEPT !.x = KeyCallOf(mir.x, op, e, d)[2],
                          !.op = op, !.err = "none",
                          !.elem = e, !.delta = d, !.phase = 1]
    /\ UNCHANGED <<Keys, IsMaxHeap, m_Nodes, m_Perm, m_Sign, hpc, hv, hret, hiter, hlast>>
    /\ UNCHANGED adjVars
    /\ UNCHANGED timeVars

\* The second call of the pair: the inverse call with the same arguments.
PairSecond ==
    /\ MirrorAtRest
    /\ mir.phase = 1
    /\ mir' = [mir EXCEPT !.x = KeyCallOf(mir.x, Inverse(mir.op), mir.elem, mir.delta)[2],
                          !.phase = 2]
    /\ UNCHANGED <<Keys, IsMaxHeap, m_Nodes, m_Perm, m_Sign, hpc, hv, hret, hiter, hlast>>
    /\ UNCHANGED adjVars
    /\ UNCHANGED timeVars

NextPair ==
    \/ MirrorStep
    \/ \E op \in KeyCalls, e \in MirrorElements, d \in Deltas : CallOnBoth(op, e, d)
    \/ \E op \in KeyCalls, e \in MirrorElements, d \in Deltas : PairFirst(op, e, d)
    \/ PairSecond

SpecPair == InitPair /\ [][NextPair]_vars

\* ------------------------------------------------------------------------
\* One Timer under Start, Pause and Reset while the clocks run
\* ------------------------------------------------------------------------
\* Timer T(StartNow) is constructed when the clocks read 0.
InitTimer ==
    /\ clock = Clock(0, 0)
    /\ \E StartNow \in BOOLEAN, garbage \in Indeterminate :
          timer = TimerOf(StartNow, clock, garbage)
    /\ tlast = NoTCall
    /\ m_Timers = EmptyMap
    /\ m_Logs = EmptyMap
    /\ rlast = NoRCall
    /\ HeapUnused
    /\ AdjUnused

\* One tick of system_clock passes, during which clock() advances by d.
Tick(d) ==
    /\ clock.now < MaxTime
    /\ clock' = Clock(clock.now + 1, clock.cpu + d)
    /\ tlast' = IF IsPaused(timer)
                THEN tlast
                ELSE [tlast EXCEPT !.ran = @ + 1, !.cpuran = @ + d]
    /\ UNCHANGED <<timer, m_Timers, m_Logs, rlast>>
    /\ UNCHANGED heapVars
    /\ UNCHANGED adjVars

\* timer.Start()
Start ==
    /\ timer' = StartOf(timer, clock)
    /\ tlast' = TCall("Start", IsPaused(timer), tlast.ran, tlast.cpuran)
    /\ UNCHANGED <<clock, m_Timers, m_Logs, rlast>>
    /\ UNCHANGED heapVars
    /\ UNCHANGED adjVars

\* timer.Pause()
Pause ==
    /\ timer' = PauseOf(timer, clock)
    /\ tlast' = TCall("Pause", IsPaused(timer), tlast.ran, tlast.cpuran)
    /\ UNCHANGED <<clock, m_Timers, m_Logs, rlast>>
    /\ UNCHANGED heapVars
    /\ UNCHANGED adjVars

\* timer.Reset(Restart)
Reset(Restart) ==
    /\ timer' = ResetOf(timer, Restart, clock)
    /\ tlast' = TCall("Reset", IsPaused(timer), 0, 0)
    /\ UNCHANGED <<clock, m_Timers, m_Logs, rlast>>
    /\ UNCHANGED heapVars
    /\ UNCHANGED adjVars

NextTimer ==
    \/ \E d \in 0..1 : Tick(d)
    \/ Start
    \/ Pause
    \/ \E Restart \in BOOLEAN : Reset(Restart)

SpecTimer == InitTimer /\ [][NextTimer]_vars

\* ------------------------------------------------------------------------
\* The named timers and loggers under Attach, Get and Delete
\* ------------------------------------------------------------------------
\* The static maps are empty when the program starts.
InitRegistry ==
    /\ TimeUnused
    /\ HeapUnused
    /\ AdjUnused

\* Timer::AttachTimer(Name, StartNow)
AttachTimer(Name, StartNow) ==
    /\ \E garbage \in Indeterminate :
          LET r == AttachTimerOf(m_Timers, Name, StartNow, clock, garbage)
          IN  /\ m_Timers' = r[2]
              /\ rlast' = RCall("AttachTimer", Name, r[1], TRUE)
    /\ UNCHANGED <<timer, clock, tlast, m_Logs>>
    /\ UNCHANGED heapVars
    /\ UNCHANGED adjVars

\* Timer::GetTimer(Name)
GetTimer(Name) ==
    /\ LET r == GetTimerOf(m_Timers, Name)
       IN  /\ m_Timers' = r[2]
           /\ rlast' = RCall("GetTimer", Name, r[1], TRUE)
    /\ UNCHANGED <<timer, clock, tlast, m_Logs>>
    /\ UNCHANGED heapVars
    /\ UNCHANGED adjVars

\* Timer::DeleteTimer(Name)
DeleteTimer(Name) ==
    /\ LET r == DeleteTimerOf(m_Timers, Name)
       IN  /\ m_Timers' = r[2]
           /\ rlast' = RCall("DeleteTimer", Name, r[1], TRUE)
    /\ UNCHANGED <<timer, clock, tlast, m_Logs>>
    /\ UNCHANGED heapVars
    /\ UNCHANGED adjVars

\* Logger::AttachLogger(Name, LogFile, Mask, WithTimestamp); is_open is
\* whether the file can be opened for writing.
AttachLogger(Name, LogFile, Mask, WithTimestamp, is_open) ==
    /\ LET r == AttachLoggerOf(m_Logs, Name, LogFile, Mask, WithTimestamp, is_open)
       IN  /\ m_Logs' = r[2]
           /\ rlast' = RCall("AttachLogger", Name, r[1], is_open)
    /\ UNCHANGED <<timer, clock, tlast, m_Timers>>
    /\ UNCHANGED heapVars
    /\ UNCHANGED adjVars

\* Logger::GetLogger(Name)
GetLogger(Name) ==
    /\ LET r == GetLoggerOf(m_Logs, Name)
       IN  /\ m_Logs' = r[2]
           /\ rlast' = RCall("GetLogger", Name, r[1], TRUE)
    /\ UNCHANGED <<timer, clock, tlast, m_Timers>>
    /\ UNCHANGED heapVars
    /\ UNCHANGED adjVars

\* Logger::DeleteLogger(Name)
DeleteLogger(Name) ==
    /\ LET r == DeleteLoggerOf(m_Logs, Name)
       IN  /\ m_Logs' = r[2]
           /\ rlast' = RCall("DeleteLogger", Name, r[1], TRUE)
    /\ UNCHANGED <<timer, clock, tlast, m_Timers>>
    /\ UNCHANGED heapVars
    /\ UNCHANGED adjVars

NextRegistry ==
    \/ \E Name \in Names, StartNow \in BOOLEAN : AttachTimer(Name, StartNow)
    \/ \E Name \in Names : GetTimer(Name)
    \/ \E Name \in Names : DeleteTimer(Name)
    \/ \E Name \in Names, LogFile \in LogFiles, Mask \in LogTypes,
          WithTimestamp \in BOOLEAN, is_open \in BOOLEAN :
          AttachLogger(Name, LogFile, Mask, WithTimestamp, is_open)
    \/ \E Name \in Names : GetLogger(Name)
    \/ \E Name \in Names : DeleteLogger(Name)

SpecRegistry == InitRegistry /\ [][NextRegistry]_vars

\* ------------------------------------------------------------------------
\* Properties of cut::MinHeap
\* ------------------------------------------------------------------------
ValidElements == 0..(Size - 1)

RECURSIVE SeqMin(_)
SeqMin(s) ==
    IF Len(s) = 1 THEN s[1]
    ELSE LET m == SeqMin(Tail(s)) IN IF s[1] < m THEN s[1] ELSE m

RECURSIVE SeqMax(_)
SeqMax(s) ==
    IF Len(s) = 1 THEN s[1]
    ELSE LET m == SeqMax(Tail(s)) IN IF s[1] > m THEN s[1] ELSE m

\* The key of element e when the last call was made.
OldKey(e) == GetKeyOf(hlast.nodes, hlast.perm, m_Sign, e)[2]

Updated == hlast.op \in {"DecreaseKey", "IncreaseKey"} /\ hlast.err = "none"

\* C1: whenever the heap is at rest (constructed, no call running), after any
\* sequence of IncreaseKey / DecreaseKey calls, FindMin() returns a pair
\* (k, e) with k = GetKey(e), and k <= GetKey(e') for every element e' of a
\* min-heap, k >= GetKey(e') for every element e' of a max-heap.
C1_FindMinIsExtremum ==
    (hpc = "idle" /\ Size > 0) =>
        LET k == FindMin[2][1]
            e == FindMin[2][2]
        IN  /\ FindMin[1] = "none"
            /\ e \in ValidElements
            /\ k = GetKey(e)[2]
            /\ \A f \in ValidElements :
                   IF IsMaxHeap THEN k >= GetKey(f)[2] ELSE k <= GetKey(f)[2]

\* The spec's scenario at n = 2: keys 0, 1, then DecreaseKey(1, 2) returned
\* and FindMin() is (-1, 1).
C1_Witness ==
    /\ hpc = "idle"
    /\ ~IsMaxHeap
    /\ hlast.op = "DecreaseKey" /\ hlast.elem = 1 /\ hlast.delta = 2
    /\ hlast.err = "none"
    /\ hlast.nodes = << <<0, 0>>, <<1, 1>> >>
    /\ FindMin = <<"none", <<0 - 1, 1>>>>

\* C2: right after construction from a non-empty key vector, FindMin()
\* returns (min(Keys), e) with Keys[e] = min(Keys) for a min-heap and
\* (max(Keys), e) with Keys[e] = max(Keys) for a max-heap (keys un-negated).
C2_FindMinAfterConstruction ==
    (hpc = "idle" /\ hlast = NoCall /\ Len(Keys) > 0) =>
        LET k == FindMin[2][1]
            e == FindMin[2][2]
        IN  /\ FindMin[1] = "none"
            /\ k = (IF IsMaxHeap THEN SeqMax(Keys) ELSE SeqMin(Keys))
            /\ e \in 0..(Len(Keys) - 1)
            /\ Keys[e + 1] = k

\* A max-heap built from four keys whose maximum is not the first key.
C2_Witness ==
    /\ hpc = "idle"
    /\ hlast = NoCall
    /\ IsMaxHeap
    /\ Keys = <<0, 1, 0, 1>>
    /\ FindMin[2][1] = 1

HeapProperty ==
    \A v \in 1..(Size - 1) : At(m_Nodes, v \div 2)[1] <= At(m_Nodes, v)[1]

\* C3: when the constructor has returned and whenever a call of IncreaseKey or
\* DecreaseKey has returned, the stored key at position v \div 2 is at most
\* the stored key at position v, for every position v >= 1.
C3_HeapPropertyAtRest == (hpc = "idle") => HeapProperty

\* An IncreaseKey that had to sift has returned on a four-element min-heap.
C3_Witness ==
    /\ hpc = "idle"
    /\ Size = 4
    /\ ~IsMaxHeap
    /\ Updated /\ hlast.op = "IncreaseKey" /\ hlast.delta > 0
    /\ m_Perm # hlast.perm

Sifting == hpc \in {"MoveUp", "MoveDown"}

\* C4: every started sift loop (MoveUp, MoveDown) ends: control returns to
\* the caller of IncreaseKey / DecreaseKey or to the constructor.
C4_SiftTerminates == Sifting ~> (hpc \in {"idle", "ctor"})

\* C5: when a call DecreaseKey(e, d) (IncreaseKey(e, d)) with a valid element
\* has returned, GetKey(e) is its value at the call minus d (plus d), and
\* GetKey of every other element is its value at the call.
C5_KeyUpdate ==
    (hpc = "idle" /\ Updated) =>
        \A e \in ValidElements :
            /\ GetKey(e)[1] = "none"
            /\ GetKey(e)[2] =
                   IF e # hlast.elem THEN OldKey(e)
                   ELSE IF hlast.op = "DecreaseKey" THEN OldKey(e) - hlast.delta
                   ELSE OldKey(e) + hlast.delta

\* DecreaseKey by 2 has returned on a max-heap of several elements.
C5_Witness ==
    /\ hpc = "idle"
    /\ IsMaxHeap
    /\ Size >= 3
    /\ Updated /\ hlast.op = "DecreaseKey" /\ hlast.delta = 2
    /\ GetKey(hlast.elem)[2] = OldKey(hlast.elem) - 2

\* C6: FindMin() on an empty heap signals OutOfRange; GetKey, DecreaseKey
\* and IncreaseKey with Element >= Size() signal OutOfRange, and after the
\* failed update the heap array and the permutation (hence every key) are
\* as they were at the call.
C6_OutOfRange ==
    /\ (hpc = "idle" /\ Size = 0) => FindMin[1] = "OutOfRange"
    /\ (hpc = "idle") => \A e \in Size..(Size + 1) : GetKey(e)[1] = "OutOfRange"
    /\ (hlast.op \in {"DecreaseKey", "IncreaseKey"} /\ hlast.elem >= Len(hlast.nodes)) =>
           /\ hlast.err = "OutOfRange"
           /\ hpc = "idle"
           /\ m_Nodes = hlast.nodes
           /\ m_Perm = hlast.perm

\* IncreaseKey(4, 1) has failed on a heap of four elements.
C6_Witness ==
    /\ Size = 4
    /\ hlast.op = "IncreaseKey" /\ hlast.elem = 4 /\ hlast.delta = 1
    /\ hlast.err = "OutOfRange"

\* ------------------------------------------------------------------------
\* Properties of the adjacency lists
\* ------------------------------------------------------------------------
NodesOf(o) == 0..(NumNodes(o) - 1)

RECURSIVE SumAdjacents(_, _)
SumAdjacents(o, i) ==
    IF i >= NumNodes(o) THEN 0
    ELSE NumAdjacents(o, i)[2] + SumAdjacents(o, i + 1)

NoRepeat(s) == \A a, b \in 1..Len(s) : s[a] = s[b] => a = b

\* C7: in every reachable state of the mutable list, NumConnections() is
\* the sum over all nodes i of NumAdjacents(i).
C7_ConnectionsAreCounted ==
    IsObject(fal) => NumConnections(fal) = SumAdjacents(fal, 0)

\* C8: in a mutable list built by AdjacencyList(N) or from a connection
\* list, after any sequence of mutations (returned or failed), no node's
\* adjacent sequence holds the same value twice.
C8_NoRepeatedAdjacent ==
    (IsObject(fal) /\ forigin \in {"N", "Conns"}) =>
        \A i \in NodesOf(fal) : NoRepeat(At(fal.m_Adj, i))

\* A list built from connections, with two adjacents on a node, on which an
\* UpdateAdjacent that would have repeated a value has just been refused.
C8_Witness ==
    /\ IsObject(fal)
    /\ forigin = "Conns"
    /\ alast = [op |-> "UpdateAdjacent", err |-> "FailedAssertion"]
    /\ \E i \in NodesOf(fal) : NumAdjacents(fal, i)[2] = 2

\* C9: the compact list C built from a mutable list A reports the same
\* NumNodes, NumAdjacents and GetAdjacent as A, and the mutable list B built
\* from C has NumNodes(B) = NumNodes(A) and, for every node, the adjacent
\* sequence of A in the same order.
C9_RoundTrip ==
    /\ cfrom = "fal" =>
           /\ IsObject(cal)
           /\ NumNodes(cal) = NumNodes(fal)
           /\ \A i \in NodesOf(fal) :
                  /\ NumAdjacents(cal, i) = NumAdjacents(fal, i)
                  /\ \A idx \in 0..(NumAdjacents(fal, i)[2] - 1) :
                         GetAdjacent(cal, i, idx) = GetAdjacent(fal, i, idx)
    /\ (cfrom = "fal" /\ fal2 # NoObject) =>
           /\ IsObject(fal2)
           /\ NumNodes(fal2) = NumNodes(fal)
           /\ \A i \in NodesOf(fal) : At(fal2.m_Adj, i) = At(fal.m_Adj, i)

\* A has three nodes, one of them with two adjacents in non-ascending order
\* and one with none, and both conversions have been made.
C9_Witness ==
    /\ cfrom = "fal"
    /\ IsObject(fal2)
    /\ fal.m_Adj = << <<1, 0>>, <<>>, <<0>> >>

\* The connections {(0,5), (1,5), (2,5), (3,5), (4,5)}.
C10_Connections == << <<0, 5>>, <<1, 5>>, <<2, 5>>, <<3, 5>>, <<4, 5>> >>

C10_EachPointsTo5 ==
    \A i \in 0..4 : /\ NumAdjacents(cal, i) = <<"none", 1>>
                    /\ GetAdjacent(cal, i, 0) = <<"none", 5>>

\* C10 as stated: the compact list built from these connections has
\* NumNodes() = 6, NumAdjacents(5) = 0, and every i in 0..4 has the single
\* adjacent 5.
C10_AsStated ==
    (conns = C10_Connections /\ IsObject(cal)) =>
        /\ NumNodes(cal) = 6
        /\ NumAdjacents(cal, 5) = <<"none", 0>>
        /\ C10_EachPointsTo5

\* C10 (amended): the compact list built from these connections has
\* NumNodes() = 5 (the largest node id plus one; 5 is an adjacent value, not
\* a node), NumAdjacents(5) signals OutOfRange, and every i in 0..4 has the
\* single adjacent 5.
C10_FiveNodes ==
    (conns = C10_Connections /\ IsObject(cal)) =>
        /\ NumNodes(cal) = 5
        /\ NumAdjacents(cal, 5)[1] = "OutOfRange"
        /\ C10_EachPointsTo5

C10_Witness == conns = C10_Connections /\ IsObject(cal) /\ cfrom = "Conns"

\* Container o has N nodes and every node has the single adjacent N.
EachPointsTo(o, N) ==
    /\ IsObject(o)
    /\ NumNodes(o) = N
    /\ \A i \in 0..(N - 1) : /\ NumAdjacents(o, i) = <<"none", 1>>
                              /\ GetAdjacent(o, i, 0) = <<"none", N>>

\* C11: for every N >= 1, the compact list built from the connections
\* {(i, N) : 0 <= i < N}, and the mutable list copy-constructed from it,
\* have NumNodes() = N, and every node i has exactly one adjacent, N.
C11_PairsGiveNNodes ==
    \A N \in 1..MaxPairs :
        conns = Pairs(N) =>
            /\ (cal # NoObject) => EachPointsTo(cal, N)
            /\ (fal2 # NoObject) => EachPointsTo(fal2, N)

\* Both containers have been built from the pairs (0,3), (1,3), (2,3).
C11_Witness ==
    /\ conns = Pairs(3)
    /\ IsObject(cal) /\ cfrom = "Conns"
    /\ IsObject(fal2) /\ fal2.class = "AdjacencyList"

\* C12: AddAdjacent(i, j) on a valid node i to which j is not adjacent
\* returns and appends j as the last adjacent of i (NumAdjacents(i) grows by
\* one, the last adjacent is j, the earlier entries and the other nodes are
\* unchanged), and AddAdjacent(i, j) on the container it leaves, like every
\* AddAdjacent(i, j) on a valid node i that already has j, signals
\* FailedAssertion.
C12_AddAdjacentAppends ==
    [][(alast = NoACall /\ alast'.op = "AddAdjacent") => \A i \in NodeArgs, j \in AdjVals :
          /\ (AddAdjacent(i, j) /\ CheckNode(fal, i) = "none"
                 /\ ~Contains(At(fal.m_Adj, i), j)) =>
                /\ alast'.err = "none"
                /\ NumNodes(fal') = NumNodes(fal)
                /\ NumAdjacents(fal', i) = <<"none", NumAdjacents(fal, i)[2] + 1>>
                /\ GetAdjacent(fal', i, NumAdjacents(fal', i)[2] - 1) = <<"none", j>>
                /\ \A idx \in 0..(NumAdjacents(fal, i)[2] - 1) :
                       GetAdjacent(fal', i, idx) = GetAdjacent(fal, i, idx)
                /\ \A k \in NodesOf(fal) \ {i} :
                       At(fal'.m_Adj, k) = At(fal.m_Adj, k)
                /\ AddAdjacentTo(fal', i, j)[1] = "FailedAssertion"
          /\ (AddAdjacent(i, j) /\ CheckNode(fal, i) = "none"
                 /\ Contains(At(fal.m_Adj, i), j)) =>
                alast'.err = "FailedAssertion"
      ]_vars

\* On a list built by AdjacencyList(N), a node has received two adjacents and
\* an AddAdjacent of a value it already has was refused.
C12_Witness ==
    /\ IsObject(fal)
    /\ forigin = "N"
    /\ alast = ACall("AddAdjacent", "FailedAssertion")
    /\ \E i \in NodesOf(fal) : NumAdjacents(fal, i)[2] = 2

\* Node and index arguments outside the valid range of container o.
BadNodes(o) == {0 - 2, 0 - 1, NumNodes(o), NumNodes(o) + 1}

BadIndices(o, i) == {0 - 2, 0 - 1, NumAdjacents(o, i)[2], NumAdjacents(o, i)[2] + 1}

\* NumAdjacents and GetAdjacent of o signal OutOfRange exactly outside the
\* valid range of their arguments.
BoundsChecked(o) ==
    /\ \A i \in NodesOf(o) :
           /\ NumAdjacents(o, i)[1] = "none"
           /\ GetAdjacent(o, i, NumAdjacents(o, i)[2])[1] = "OutOfRange"
           /\ \A idx \in BadIndices(o, i) : GetAdjacent(o, i, idx)[1] = "OutOfRange"
           /\ \A idx \in 0..(NumAdjacents(o, i)[2] - 1) :
                  GetAdjacent(o, i, idx)[1] = "none"
    /\ \A i \in BadNodes(o) :
           /\ NumAdjacents(o, i)[1] = "OutOfRange"
           /\ \A idx \in (0 - 1)..(MaxAdj + 1) : GetAdjacent(o, i, idx)[1] = "OutOfRange"

\* C13: for the mutable and the compact list alike and every valid node i,
\* GetAdjacent(i, NumAdjacents(i)) signals OutOfRange, as do GetAdjacent and
\* NumAdjacents with a negative index or with i >= NumNodes(); for every
\* 0 <= idx < NumAdjacents(i), GetAdjacent(i, idx) returns without error.
C13_OutOfRangeReads ==
    /\ IsObject(fal) => BoundsChecked(fal)
    /\ IsObject(cal) => BoundsChecked(cal)
    /\ IsObject(fal2) => BoundsChecked(fal2)

\* A mutable list and the compact list built from it, with a node that has
\* two adjacents and a node that has none.
C13_Witness ==
    /\ IsObject(fal)
    /\ cfrom = "fal" /\ IsObject(cal)
    /\ \E i \in NodesOf(cal) : NumAdjacents(cal, i)[2] = 2
    /\ \E i \in NodesOf(cal) : NumAdjacents(cal, i)[2] = 0

\* The mutations of cut::AdjacencyList that can signal an error.
CheckedMutations ==
    {"InsertNode", "SwapNodes", "RemoveNode", "AddAdjacent", "InsertAdjacent",
     "UpdateAdjacent", "ReplaceAdjacent", "RemoveAdjacent"}

\* C14: every mutation of the mutable list that signals OutOfRange or
\* FailedAssertion leaves the container as it was before the call: same
\* NumNodes, same NumConnections, same adjacent sequence for every node.
C14_FailedCallChangesNothing ==
    [][(alast = NoACall /\ alast'.op \in CheckedMutations
          /\ alast'.err \in {"OutOfRange", "FailedAssertion"}) =>
           /\ NumNodes(fal') = NumNodes(fal)
           /\ NumConnections(fal') = NumConnections(fal)
           /\ \A i \in NodesOf(fal) : At(fal'.m_Adj, i) = At(fal.m_Adj, i)
      ]_vars

\* ReplaceAdjacent has just failed its assertion on a list in which a node
\* has two adjacents.
C14_Witness ==
    /\ IsObject(fal)
    /\ alast = ACall("ReplaceAdjacent", "FailedAssertion")
    /\ \E i \in NodesOf(fal) : NumAdjacents(fal, i)[2] = 2

\* C15: RemoveNode(i) with 0 <= i < NumNodes() returns and reduces
\* NumNodes() by exactly one; afterwards every node k < i has the adjacent
\* sequence it had, and every node k >= i has verbatim the sequence node
\* k + 1 had (adjacent values are not renumbered); RemoveNode(i) with i
\* outside the range signals OutOfRange.
C15_RemoveNodeShifts ==
    [][(alast = NoACall /\ alast'.op = "RemoveNode") => \A i \in NodeArgs :
          /\ (RemoveNode(i) /\ 0 <= i /\ i < NumNodes(fal)) =>
                /\ alast'.err = "none"
                /\ NumNodes(fal') = NumNodes(fal) - 1
                /\ \A k \in NodesOf(fal') :
                       AdjacentsOf(fal', k) =
                           IF k < i THEN AdjacentsOf(fal, k) ELSE AdjacentsOf(fal, k + 1)
          /\ (RemoveNode(i) /\ ~(0 <= i /\ i < NumNodes(fal))) =>
                alast'.err = "OutOfRange"
      ]_vars

\* RemoveNode has just returned, and the node now at position 0 of the two
\* that remain has no adjacent while the node after it has some.
C15_Witness ==
    /\ IsObject(fal)
    /\ alast = ACall("RemoveNode", "none")
    /\ NumNodes(fal) = 2
    /\ NumAdjacents(fal, 0)[2] = 0
    /\ NumAdjacents(fal, 1)[2] = 2

\* InsertAdjacent(i, j, idx) has returned and left fal' with j at position
\* idx of node i, the entries formerly at positions >= idx shifted up by one
\* and those before idx in place.
InsertedAt(i, j, idx) ==
    /\ alast'.err = "none"
    /\ NumAdjacents(fal', i) = <<"none", NumAdjacents(fal, i)[2] + 1>>
    /\ GetAdjacent(fal', i, idx) = <<"none", j>>
    /\ \A p \in 0..(NumAdjacents(fal, i)[2] - 1) :
           GetAdjacent(fal', i, IF p < idx THEN p ELSE p + 1) = GetAdjacent(fal, i, p)

\* C16 as stated: InsertAdjacent(i, j, idx) succeeds for every valid node i,
\* every idx in [0, NumAdjacents(i)] inclusive and every j not adjacent to
\* i, with j at idx afterwards and the later entries shifted up by one.
C16_AsStated ==
    [][(alast = NoACall /\ alast'.op = "InsertAdjacent") => \A i \in NodeArgs, j \in AdjVals, idx \in IdxArgs :
          (CheckNode(fal, i) = "none"
             /\ 0 <= idx /\ idx <= NumAdjacents(fal, i)[2]
             /\ ~Contains(At(fal.m_Adj, i), j)
             /\ InsertAdjacent(i, j, idx)) =>
              InsertedAt(i, j, idx)
      ]_vars

\* C16 (amended): InsertAdjacent(i, j, idx) succeeds for every valid node i,
\* every idx in [0, NumAdjacents(i)) and every j not adjacent to i, with j at
\* idx afterwards and the later entries shifted up by one; with
\* idx = NumAdjacents(i) it signals OutOfRange (so it never succeeds on a
\* node with no adjacents).
C16_InsertBeforeExisting ==
    [][(alast = NoACall /\ alast'.op = "InsertAdjacent") => \A i \in NodeArgs, j \in AdjVals, idx \in IdxArgs :
          /\ (CheckNode(fal, i) = "none"
                 /\ 0 <= idx /\ idx < NumAdjacents(fal, i)[2]
                 /\ ~Contains(At(fal.m_Adj, i), j)
                 /\ InsertAdjacent(i, j, idx)) =>
                InsertedAt(i, j, idx)
          /\ (CheckNode(fal, i) = "none"
                 /\ idx = NumAdjacents(fal, i)[2]
                 /\ InsertAdjacent(i, j, idx)) =>
                alast'.err = "OutOfRange"
      ]_vars

\* InsertAdjacent has just returned on a list built by AdjacencyList(N): 0
\* was inserted at position 0, before the adjacent 1 added earlier.
C16_Witness ==
    /\ IsObject(fal)
    /\ forigin = "N"
    /\ alast = ACall("InsertAdjacent", "none")
    /\ \E i \in NodesOf(fal) : At(fal.m_Adj, i) = <<0, 1>>

\* The adjacents paired with node i in the connection list cs, each once, in
\* the order of their first occurrence.
RECURSIVE DistinctAdjacents(_, _, _)
DistinctAdjacents(cs, i, seen) ==
    IF cs = <<>> THEN seen
    ELSE IF Head(cs)[1] = i /\ ~(\E p \in 1..Len(seen) : seen[p] = Head(cs)[2])
    THEN DistinctAdjacents(Tail(cs), i, Append(seen, Head(cs)[2]))
    ELSE DistinctAdjacents(Tail(cs), i, seen)

\* The largest node id of the connection list cs plus one, 0 when cs is empty.
NodeCount(cs) ==
    IF cs = <<>> THEN 0
    ELSE 1 + CHOOSE m \in {cs[p][1] : p \in 1..Len(cs)} :
                 \A p \in 1..Len(cs) : cs[p][1] <= m

\* C17: building a mutable list from a connection list never signals an
\* error, duplicate pairs or not: the result has NumNodes() = max(node) + 1
\* (0 for the empty list), each node's adjacent sequence is the sequence of
\* the distinct adjacents paired with it, in order of first occurrence, and
\* AddAdjacent of any pair of the list on the result signals FailedAssertion.
C17_BulkConstructionDropsDuplicates ==
    (forigin = "Conns") =>
        /\ IsObject(fal)
        /\ NumNodes(fal) = NodeCount(conns)
        /\ \A i \in NodesOf(fal) :
               AdjacentsOf(fal, i) = DistinctAdjacents(conns, i, <<>>)
        /\ \A p \in 1..Len(conns) :
               AddAdjacentTo(fal, conns[p][1], conns[p][2])[1] = "FailedAssertion"

\* The list was built from (1,0), (1,0): a duplicate pair, dropped.
C17_Witness ==
    /\ conns = << <<1, 0>>, <<1, 0>> >>
    /\ forigin = "Conns"
    /\ IsObject(fal)
    /\ fal.m_Adj = << <<>>, <<0>> >>

\* Container B reports the node count and, node by node, the adjacent
\* sequence that container A reports.
SameAdjacency(B, A) ==
    /\ IsObject(B)
    /\ NumNodes(B) = NumNodes(A)
    /\ \A i \in NodesOf(A) :
           /\ NumAdjacents(B, i) = NumAdjacents(A, i)
           /\ \A idx \in 0..(NumAdjacents(A, i)[2] - 1) :
                  GetAdjacent(B, i, idx) = GetAdjacent(A, i, idx)

\* C18: a mutable list copy-constructed from a source that is itself a
\* mutable list has the same NumNodes, the same NumConnections and, for
\* every node, exactly the adjacent sequence of the source.
C18_MutableCopyOfMutable ==
    (dup.op = "AdjacencyList" /\ dup.src = "fal") =>
        /\ SameAdjacency(dup.obj, fal)
        /\ NumConnections(dup.obj) = NumConnections(fal)

\* C19: after T = S, for a mutable list T and any container S (mutable or
\* compact, built from a non-empty connection list), T has the NumNodes of S
\* and, for every node, the adjacent sequence of S, whatever T held before.
C19_AssignMakesEqual ==
    (dup.op = "operator=" /\ conns # <<>>) =>
        SameAdjacency(dup.obj, Source(dup.src))

\* C20: a compact list copy-constructed from a source that is itself a
\* compact list (built from a non-empty connection list) has the NumNodes,
\* NumConnections, NumAdjacents(i) and GetAdjacent(i, idx) of the source.
C20_CompactCopyOfCompact ==
    (dup.op = "CompatAdjacencyList" /\ dup.src = "cal" /\ conns # <<>>) =>
        /\ SameAdjacency(dup.obj, cal)
        /\ NumConnections(dup.obj) = NumConnections(cal)

\* C21: after T = S, for a compact list T and any container S (mutable or
\* compact, built from a non-empty connection list), T has the NumNodes,
\* NumConnections, NumAdjacents(i) and GetAdjacent(i, idx) of S, whatever T
\* held before.
C21_CompactAssignMakesEqual ==
    (dup.op = "CompatAdjacencyList::operator=" /\ conns # <<>>) =>
        /\ SameAdjacency(dup.obj, Source(dup.src))
        /\ NumConnections(dup.obj) = NumConnections(Source(dup.src))

\* Node i is a node of o, and idx a position in its adjacent sequence.
ValidNode(o, i) == 0 <= i /\ i < NumNodes(o)

ValidIndex(o, i, idx) == ValidNode(o, i) /\ 0 <= idx /\ idx < Len(At(o.m_Adj, i))

\* Every node of fal other than i has in fal' the adjacent sequence it had,
\* and the number of nodes is the same.
OtherNodesKept(i) ==
    /\ NumNodes(fal') = NumNodes(fal)
    /\ \A n \in NodesOf(fal) \ {i} : At(fal'.m_Adj, n) = At(fal.m_Adj, n)

\* Value j is at a position of node i other than idx.
Elsewhere(o, i, j, idx) ==
    \E p \in 0..(Len(At(o.m_Adj, i)) - 1) : p # idx /\ At(At(o.m_Adj, i), p) = j

C23_ReplaceAdjacentInPlace ==
    [][(alast = NoACall /\ alast'.op = "ReplaceAdjacent") =>
        \A i \in OpNodeArgs, j, k \in OpVals :
          ReplaceAdjacent(i, j, k) =>
            IF ~ValidNode(fal, i)
            THEN alast'.err = "OutOfRange"
            ELSE IF ~Elsewhere(fal, i, j, 0 - 1) \/ Elsewhere(fal, i, k, 0 - 1)
            THEN alast'.err = "FailedAssertion" /\ fal' = fal
            ELSE /\ alast'.err = "none"
                 /\ Len(At(fal'.m_Adj, i)) = Len(At(fal.m_Adj, i))
                 /\ \A p \in 0..(Len(At(fal.m_Adj, i)) - 1) :
                        At(At(fal'.m_Adj, i), p) =
                            IF At(At(fal.m_Adj, i), p) = j THEN k
                            ELSE At(At(fal.m_Adj, i), p)
                 /\ OtherNodesKept(i)
      ]_vars

\* ReplaceAdjacent has returned after writing 2 over the second of two
\* adjacents of a node.
C23_Witness ==
    /\ alast = ACall("ReplaceAdjacent", "none")
    /\ \E i \in NodesOf(fal) : At(fal.m_Adj, i) = <<1, 2>> /\ conns = << <<i, 1>>, <<i, 0>> >>

\* C24: RemoveAdjacent(i, idx) with valid i and 0 <= idx < NumAdjacents(i)
\* removes the entry at idx: NumAdjacents(i) drops by one, the entries
\* before idx keep their positions, the entries after idx move down by one
\* in the same order, and the other nodes are unchanged; an invalid i or
\* idx signals OutOfRange.
C24_RemoveAdjacentErases ==
    [][(alast = NoACall /\ alast'.op = "RemoveAdjacent") =>
        \A i \in OpNodeArgs, idx \in OpIdxArgs :
          /\ (ValidIndex(fal, i, idx) /\ RemoveAdjacent(i, idx)) =>
                /\ alast'.err = "none"
                /\ NumAdjacents(fal', i) = <<"none", NumAdjacents(fal, i)[2] - 1>>
                /\ \A p \in 0..(idx - 1) :
                       GetAdjacent(fal', i, p) = GetAdjacent(fal, i, p)
                /\ \A p \in idx..(Len(At(fal.m_Adj, i)) - 2) :
                       GetAdjacent(fal', i, p) = GetAdjacent(fal, i, p + 1)
                /\ OtherNodesKept(i)
          /\ (~ValidIndex(fal, i, idx) /\ RemoveAdjacent(i, idx)) =>
                alast'.err = "OutOfRange"
      ]_vars

\* RemoveAdjacent has returned after erasing the first of two adjacents.
C24_Witness ==
    /\ alast = ACall("RemoveAdjacent", "none")
    /\ \E i \in NodesOf(fal) : At(fal.m_Adj, i) = <<2>> /\ conns = << <<i, 1>>, <<i, 2>> >>

\* C25: InsertNode(i) with 0 <= i < NumNodes() increases NumNodes() by one,
\* makes node i an empty list, keeps the nodes below i unchanged and gives
\* every node k > i verbatim the sequence node k - 1 had (no adjacent value
\* is rewritten); InsertNode(NumNodes()) and a negative i signal OutOfRange.
C25_InsertNodeShifts ==
    [][(alast = NoACall /\ alast'.op = "InsertNode") => \A i \in NodeArgs :
          /\ (ValidNode(fal, i) /\ InsertNode(i)) =>
                /\ alast'.err = "none"
                /\ NumNodes(fal') = NumNodes(fal) + 1
                /\ AdjacentsOf(fal', i) = <<>>
                /\ \A k \in NodesOf(fal') \ {i} :
                       AdjacentsOf(fal', k) =
                           IF k < i THEN AdjacentsOf(fal, k) ELSE AdjacentsOf(fal, k - 1)
          /\ ((i = NumNodes(fal) \/ i < 0) /\ InsertNode(i)) =>
                (alast'.err = "OutOfRange" /\ fal' = fal)
      ]_vars

\* InsertNode has returned and put an empty node in front of a node that
\* has adjacents, the first of which is 0 (the number of the new node).
C25_Witness ==
    /\ IsObject(fal)
    /\ alast = ACall("InsertNode", "none")
    /\ NumNodes(fal) = 2
    /\ AdjacentsOf(fal, 0) = <<>>
    /\ AdjacentsOf(fal, 1) = <<0, 1>>

\* C26: SwapNodes(i, j) with valid i and j exchanges the adjacent sequences
\* of nodes i and j, leaves NumNodes and every other node's sequence
\* unchanged, rewrites no adjacent value, and changes nothing when i = j;
\* applying it a second time gives back the container it started from.
C26_SwapNodesExchanges ==
    [][(alast = NoACall /\ alast'.op = "SwapNodes") => \A i, j \in NodeArgs :
          (ValidNode(fal, i) /\ ValidNode(fal, j) /\ SwapNodes(i, j)) =>
                /\ alast'.err = "none"
                /\ NumNodes(fal') = NumNodes(fal)
                /\ AdjacentsOf(fal', i) = AdjacentsOf(fal, j)
                /\ AdjacentsOf(fal', j) = AdjacentsOf(fal, i)
                /\ \A k \in NodesOf(fal) \ {i, j} :
                       AdjacentsOf(fal', k) = AdjacentsOf(fal, k)
                /\ (i = j) => (fal' = fal)
                /\ SwapNodesOf(fal', i, j) = <<"none", fal>>
      ]_vars

\* SwapNodes has returned on three nodes, the outer two of which now hold
\* different sequences with values naming the swapped nodes.
C26_Witness ==
    /\ IsObject(fal)
    /\ alast = ACall("SwapNodes", "none")
    /\ NumNodes(fal) = 3
    /\ AdjacentsOf(fal, 0) = <<0, 1>>
    /\ AdjacentsOf(fal, 1) = <<1>>
    /\ AdjacentsOf(fal, 2) = <<>>

\* m_Perm is a bijection on 0..Size-1 that points every element at the node
\* carrying its id.
PermIsInverse ==
    /\ Len(m_Perm) = Size
    /\ \A e \in 0..(Size - 1) :
          /\ At(m_Perm, e) \in 0..(Size - 1)
          /\ At(m_Nodes, At(m_Perm, e))[2] = e
    /\ \A e, f \in 0..(Size - 1) : At(m_Perm, e) = At(m_Perm, f) => e = f

\* C27: in every reachable heap state m_Perm is a bijection on 0..n-1 with
\* m_Nodes[m_Perm[e]].second = e for every element e; the constructor ends
\* with Size() equal to the number of keys it was given, and no step of
\* IncreaseKey or DecreaseKey changes Size().
C27_PermInverseSizeFixed ==
    /\ []PermIsInverse
    /\ [][/\ (hpc = "ctor" /\ hpc' = "idle") => Len(m_Nodes') = Len(Keys)
          /\ (hpc # "ctor") => Len(m_Nodes') = Len(m_Nodes)]_vars

\* A call of DecreaseKey has returned on a heap of MaxN nodes in which no
\* element is at the position of its id any more.
C27_Witness ==
    /\ hpc = "idle"
    /\ hlast.op = "DecreaseKey" /\ hlast.err = "none"
    /\ Size = MaxN
    /\ \A e \in 0..(Size - 2) : At(m_Perm, e) # e

\* The stored key of the node at position v.
StoredKey(v) == At(m_Nodes, v)[1]

\* The step is an iteration of a sift loop that goes on to another node.
SiftSwap ==
    /\ hpc \in {"MoveUp", "MoveDown"}
    /\ hpc' = hpc
    /\ hv' # hv

\* C28 (as stated): no sift iteration swaps two nodes whose stored keys
\* are equal.
C28_NoSwapOnEqualKeys ==
    [][SiftSwap => StoredKey(hv) # StoredKey(hv')]_vars

\* C28 (amended): MoveUp swaps the node with its parent exactly when the
\* parent's stored key is greater than or equal to the node's, and MoveDown
\* swaps the node with the child it compares with (the right child when it
\* is strictly smaller than the left, else the left) exactly when that
\* child's stored key is less than or equal to the node's: a tie is swapped.
C28_TiesAreSwapped ==
    [][/\ (hpc = "MoveUp" /\ hv # 0) =>
             LET p == hv \div 2
             IN  IF StoredKey(p) >= StoredKey(hv)
                 THEN hpc' = hpc /\ hv' = p /\ m_Nodes' = SwapAt(m_Nodes, p, hv)
                 ELSE hpc' # hpc /\ m_Nodes' = m_Nodes
       /\ (hpc = "MoveDown" /\ 2 * hv < Size) =>
             LET l == 2 * hv
                 u == IF l + 1 < Size /\ StoredKey(l + 1) < StoredKey(l)
                      THEN l + 1 ELSE l
             IN  IF StoredKey(u) <= StoredKey(hv)
                 THEN hpc' = hpc /\ hv' = u /\ m_Nodes' = SwapAt(m_Nodes, hv, u)
                 ELSE hpc' # hpc /\ m_Nodes' = m_Nodes
      ]_vars

\* The constructor has finished on two equal keys, and the second element
\* is at the root: the insertion of the second key swapped it with the
\* first.
C28_Witness ==
    /\ hpc = "idle"
    /\ Keys = <<0, 0>>
    /\ At(m_Nodes, 0) = <<0, 1>>
    /\ At(m_Nodes, 1) = <<0, 0>>

\* A call IncreaseKey(e, 0) or DecreaseKey(e, 0) with a valid element is
\* under way or has just returned.
ZeroDeltaCall ==
    /\ hlast.op \in {"IncreaseKey", "DecreaseKey"}
    /\ hlast.err = "none"
    /\ hlast.delta = 0

\* C29: IncreaseKey(e, 0) and DecreaseKey(e, 0) with a valid element e
\* return, and when they have, GetKey of every element and the key given by
\* FindMin are what they were at the call, in min-heaps and max-heaps.
C29_ZeroDeltaReturnsUnchanged ==
    (ZeroDeltaCall /\ Sifting) ~>
        /\ hpc = "idle"
        /\ ZeroDeltaCall
        /\ \A e \in ValidElements : GetKey(e) = <<"none", OldKey(e)>>
        /\ FindMin[2][1] = m_Sign * At(hlast.nodes, 0)[1]

\* C30: a max-heap over keys K and a min-heap over the keys -K, with every
\* IncreaseKey(e, d) on the first mirrored by DecreaseKey(e, d) on the
\* second and the other way round, have the same m_Nodes and the same
\* m_Perm after every step; GetKey(e) of the max-heap is the negation of
\* GetKey(e) of the min-heap for every element, and FindMin() of the
\* max-heap gives the negated key and the same element as FindMin() of the
\* min-heap.
C30_MirrorHeapsAgree ==
    (mir # NoMirror) =>
        /\ mir.x.m_Nodes = mir.y.m_Nodes
        /\ mir.x.m_Perm = mir.y.m_Perm
        /\ mir.x.pc = mir.y.pc
        /\ MirrorAtRest =>
              /\ \A e \in MirrorElements :
                    /\ GetKeyOf(mir.x.m_Nodes, mir.x.m_Perm, mir.x.m_Sign, e)[1] =
                           GetKeyOf(mir.y.m_Nodes, mir.y.m_Perm, mir.y.m_Sign, e)[1]
                    /\ GetKeyOf(mir.x.m_Nodes, mir.x.m_Perm, mir.x.m_Sign, e)[2] =
                           0 - GetKeyOf(mir.y.m_Nodes, mir.y.m_Perm, mir.y.m_Sign, e)[2]
              /\ FindMinOf(mir.x)[1] = FindMinOf(mir.y)[1]
              /\ FindMinOf(mir.x)[2][1] = 0 - FindMinOf(mir.y)[2][1]
              /\ FindMinOf(mir.x)[2][2] = FindMinOf(mir.y)[2][2]

\* A mirrored call has returned on MirrorN elements whose keys are not all
\* equal, and it has moved the element it was made on to the root.
C30_Witness ==
    /\ mir # NoMirror
    /\ MirrorAtRest
    /\ mir.op = "IncreaseKey" /\ mir.err = "none"
    /\ Len(mir.x.m_Nodes) = MirrorN
    /\ At(mir.x.m_Nodes, 0)[2] = MirrorN - 1
    /\ At(mir.x.m_Nodes, 0)[1] < At(mir.x.m_Nodes, 1)[1]
    /\ FindMinOf(mir.x)[2][1] = 0 - FindMinOf(mir.y)[2][1]

\* The compact containers a run has produced: the one constructed from the
\* connection list, and the one made by a copy constructor or an assignment.
CompactsProduced ==
    {o \in {cal, dup.obj} : o.class = "CompatAdjacencyList"}

\* m_Idx has NumNodes()+1 entries, starts at 0, never decreases and ends at
\* the length of m_Adj.
OffsetsWellFormed(o) ==
    /\ Len(o.m_Idx) = NumNodes(o) + 1
    /\ Len(o.m_Idx) >= 1
    /\ o.m_Idx[1] = 0
    /\ \A k \in 1..(Len(o.m_Idx) - 1) : o.m_Idx[k] <= o.m_Idx[k + 1]
    /\ o.m_Idx[Len(o.m_Idx)] = Len(o.m_Adj)

\* C31: every CompatAdjacencyList produced by a constructor or by an
\* assignment (from a non-empty connection list or from a container built
\* from one) has m_Idx of length NumNodes()+1 with m_Idx[0] = 0, m_Idx
\* non-decreasing and m_Idx[NumNodes()] equal to the length of m_Adj, so
\* that NumConnections() is the sum over the nodes of NumAdjacents(i).
C31_OffsetsWellFormed ==
    (conns # <<>>) =>
        \A o \in CompactsProduced :
            /\ OffsetsWellFormed(o)
            /\ NumConnections(o) = SumAdjacents(o, 0)

\* The number of pairs of the connection list cs equal to <<i, v>>, and the
\* number of entries of the sequence s equal to v.
RECURSIVE PairCount(_, _, _)
PairCount(cs, i, v) ==
    IF cs = <<>> THEN 0
    ELSE PairCount(Tail(cs), i, v) + (IF Head(cs) = <<i, v>> THEN 1 ELSE 0)

RECURSIVE ValueCount(_, _)
ValueCount(s, v) ==
    IF s = <<>> THEN 0
    ELSE ValueCount(Tail(s), v) + (IF Head(s) = v THEN 1 ELSE 0)

\* The adjacent values that occur in the connection list cs.
ValuesIn(cs) == {cs[k][2] : k \in 1..Len(cs)}

\* The largest node id of a non-empty connection list, plus one.
NodeBound(cs) ==
    CHOOSE n \in 1..(MaxPairs + MaxNodes + 1) :
        /\ \E k \in 1..Len(cs) : cs[k][1] = n - 1
        /\ \A k \in 1..Len(cs) : cs[k][1] < n

\* C32: a CompatAdjacencyList built from a non-empty connection list given
\* in any order has NumNodes() = max(node)+1; for every node i
\* NumAdjacents(i) is the number of input pairs whose node is i (0 for
\* ids that do not occur), and the values GetAdjacent(i, .) are the
\* adjacents of those pairs, each as often as its pair is given.
C32_CompactFromConnections ==
    (cfrom = "Conns" /\ conns # <<>> /\ IsObject(cal)) =>
        /\ NumNodes(cal) = NodeBound(conns)
        /\ \A i \in NodesOf(cal) :
              /\ NumAdjacents(cal, i)[1] = "none"
              /\ NumAdjacents(cal, i)[2] =
                     Cardinality({k \in 1..Len(conns) : conns[k][1] = i})
              /\ \A v \in ValuesIn(conns) \cup {GetAdjacent(cal, i, p)[2] :
                                                  p \in 0..(NumAdjacents(cal, i)[2] - 1)} :
                     ValueCount(AdjacentsOf(cal, i), v) = PairCount(conns, i, v)

\* The compact list has been built from two pairs given out of order that
\* leave node 0 and node 1 without adjacents.
C32_Witness ==
    /\ cfrom = "Conns" /\ IsObject(cal)
    /\ conns = << <<2, 1>>, <<2, 0>> >>
    /\ NumNodes(cal) = 3
    /\ AdjacentsOf(cal, 2) = <<0, 1>>

\* The containers the claim is about: the compact list built from the
\* connection list, and the copies made of a container.
BuiltOrCopied == {o \in {cal, fal2, dup.obj} : IsObject(o)}

\* C33: in a CompatAdjacencyList built from a (non-empty) connection list,
\* also one that repeats a pair, and in every container obtained from a
\* container by a copy, no node's adjacent sequence holds a value twice.
C33_NoRepeatedAdjacent ==
    (conns # <<>>) =>
        \A o \in BuiltOrCopied :
            \A i \in NodesOf(o) :
                \A p, q \in 0..(NumAdjacents(o, i)[2] - 1) :
                    GetAdjacent(o, i, p)[2] = GetAdjacent(o, i, q)[2] => p = q

\* C34: constructing a CompatAdjacencyList from the empty connection list
\* reads nothing outside the (empty) sorted array and gives a container
\* with NumNodes() = 0 and NumConnections() = 0, as constructing an
\* AdjacencyList from the empty list does.
C34_EmptyConnections ==
    /\ (conns = <<>> /\ forigin = "Conns") =>
          (IsObject(fal) /\ NumNodes(fal) = 0 /\ NumConnections(fal) = 0)
    /\ (conns = <<>> /\ cfrom = "Conns") =>
          (IsObject(cal) /\ NumNodes(cal) = 0 /\ NumConnections(cal) = 0)

\* No pair occurs twice in the connection list cs.
NoRepeatedPair(cs) == \A k, l \in 1..Len(cs) : cs[k] = cs[l] => k = l

\* The set of values of a sequence.
ValueSet(s) == {s[k] : k \in 1..Len(s)}

\* C35: for every non-empty connection list without repeated pairs, the
\* CompatAdjacencyList and the AdjacencyList built from it agree on
\* NumNodes(), on NumConnections() and, for every node, on NumAdjacents(i)
\* and on the set of adjacent values; inside a node the compact list is
\* ascending by value and the mutable list is in input order.
C35_CompactAgreesWithMutable ==
    (/\ conns # <<>> /\ NoRepeatedPair(conns)
     /\ cfrom = "Conns" /\ forigin = "Conns" /\ IsObject(cal) /\ IsObject(fal)) =>
        /\ NumNodes(cal) = NumNodes(fal)
        /\ NumConnections(cal) = NumConnections(fal)
        /\ \A i \in NodesOf(fal) :
              /\ NumAdjacents(cal, i) = NumAdjacents(fal, i)
              /\ ValueSet(AdjacentsOf(cal, i)) = ValueSet(AdjacentsOf(fal, i))
              /\ \A p \in 1..(Len(AdjacentsOf(cal, i)) - 1) :
                     AdjacentsOf(cal, i)[p] < AdjacentsOf(cal, i)[p + 1]
              /\ AdjacentsOf(fal, i) = DistinctAdjacents(conns, i, <<>>)

\* Both lists have been built from two pairs of one node given in
\* descending order of value: the two containers order the node differently.
C35_Witness ==
    /\ conns = << <<1, 1>>, <<1, 0>> >>
    /\ cfrom = "Conns" /\ forigin = "Conns" /\ IsObject(cal) /\ IsObject(fal)
    /\ AdjacentsOf(cal, 1) = <<0, 1>>
    /\ AdjacentsOf(fal, 1) = <<1, 0>>

\* The heap property and the permutation invariant of the object h.
HeapPropertyOf(h) ==
    \A v \in 1..(Len(h.m_Nodes) - 1) :
        At(h.m_Nodes, v \div 2)[1] <= At(h.m_Nodes, v)[1]

PermIsInverseOf(h) ==
    /\ Len(h.m_Perm) = Len(h.m_Nodes)
    /\ \A e \in 0..(Len(h.m_Nodes) - 1) :
          /\ At(h.m_Perm, e) \in 0..(Len(h.m_Nodes) - 1)
          /\ At(h.m_Nodes, At(h.m_Perm, e))[2] = e

\* C36: when IncreaseKey(e, d) followed by DecreaseKey(e, d), or
\* DecreaseKey(e, d) followed by IncreaseKey(e, d), with a valid element e
\* and d >= 0, have both returned, GetKey of every element is what it was
\* before the pair, and the heap property and the permutation invariant
\* hold.
C36_InversePairRestoresKeys ==
    (mir # NoMirror /\ MirrorAtRest /\ mir.phase = 2) =>
        /\ \A e \in 0..(Len(mir.x.m_Nodes) - 1) :
               GetKeyOf(mir.x.m_Nodes, mir.x.m_Perm, mir.x.m_Sign, e) =
                   GetKeyOf(mir.y.m_Nodes, mir.y.m_Perm, mir.y.m_Sign, e)
        /\ HeapPropertyOf(mir.x)
        /\ PermIsInverseOf(mir.x)

\* A pair IncreaseKey, DecreaseKey by 2 has returned on a heap of MirrorN
\* elements and has left the nodes in another order than before the pair.
C36_Witness ==
    /\ mir # NoMirror /\ MirrorAtRest /\ mir.phase = 2
    /\ mir.op = "IncreaseKey" /\ mir.delta = 2
    /\ Len(mir.x.m_Nodes) = MirrorN
    /\ mir.x.m_Nodes # mir.y.m_Nodes

\* ------------------------------------------------------------------------
\* Properties of cut::Timer
\* ------------------------------------------------------------------------
\* C37: a Timer is always either paused or running. Start() on a running
\* timer and Pause() on a paused one change no member (so Start() while
\* running keeps the start of the current interval); Start() on a paused
\* timer leaves it running and Pause() on a running one leaves it paused;
\* after Reset(Restart) the accumulated times are zero and the timer is
\* paused exactly when Restart is false; and at every moment the accumulated
\* time, on either clock, is the number of ticks that passed while the timer
\* was running since its last Reset.
C37_TimerAccumulatesRunningTime ==
    /\ [](/\ IsPaused(timer) \in BOOLEAN
          /\ GetTime(timer, clock) = tlast.ran
          /\ GetCPUTime(timer, clock) = tlast.cpuran)
    /\ [][/\ (Start /\ ~IsPaused(timer)) => timer' = timer
          /\ (Start /\ IsPaused(timer)) => ~IsPaused(timer')
          /\ (Pause /\ IsPaused(timer)) => timer' = timer
          /\ (Pause /\ ~IsPaused(timer)) => IsPaused(timer')
          /\ \A Restart \in BOOLEAN :
                Reset(Restart) =>
                    /\ IsPaused(timer') = ~Restart
                    /\ GetTime(timer', clock') = 0
                    /\ GetCPUTime(timer', clock') = 0]_vars

\* Start() was called on a timer that was running, in its second running
\* interval at least, and time has passed since that interval began.
C37_Witness ==
    /\ tlast.op = "Start"
    /\ ~tlast.paused
    /\ ~IsPaused(timer)
    /\ timer.m_Tot > 0
    /\ timer.m_Start < clock.now
    /\ tlast.ran > timer.m_Tot

\* ------------------------------------------------------------------------
\* Properties of the named timers and loggers
\* ------------------------------------------------------------------------
\* The map a call c works on, before and after the call, and the other map.
OnTimers(c) == c.op \in {"AttachTimer", "GetTimer", "DeleteTimer"}
OnLoggers(c) == c.op \in {"AttachLogger", "GetLogger", "DeleteLogger"}
IsAttach(c) == c.op \in {"AttachTimer", "AttachLogger"}
IsGetOrDelete(c) == c.op \in {"GetTimer", "DeleteTimer", "GetLogger", "DeleteLogger"}
IsDelete(c) == c.op \in {"DeleteTimer", "DeleteLogger"}

\* The name can be attached: AttachTimer with any argument, and AttachLogger
\* with any argument and a file that opens, signal nothing.
CanAttachTimer(T, Name) ==
    \A StartNow \in BOOLEAN, garbage \in Indeterminate :
        AttachTimerOf(T, Name, StartNow, clock, garbage)[1] = "none"

CanAttachLogger(L, Name) ==
    \A LogFile \in LogFiles, Mask \in LogTypes, WithTimestamp \in BOOLEAN :
        AttachLoggerOf(L, Name, LogFile, Mask, WithTimestamp, TRUE)[1] = "none"

\* What every call c on a map leaves alone: the map as a whole when the call
\* fails, the entries of the other names, and the other map.
RegistryFrame(c, map, map2) ==
    /\ c.err # "none" => map2 = map
    /\ \A n \in Names \ {c.name} :
          /\ Found(map2, n) <=> Found(map, n)
          /\ Found(map, n) => map2[n] = map[n]
    /\ OnTimers(c) => m_Logs' = m_Logs
    /\ OnLoggers(c) => m_Timers' = m_Timers

\* What a successful call does to its name, and the name being free again
\* after Delete.
RegistryEffect(c, map2) ==
    /\ (IsAttach(c) /\ c.err = "none") => Found(map2, c.name)
    /\ (IsDelete(c) /\ c.err = "none") => ~Found(map2, c.name)
    /\ (c.op = "DeleteTimer" /\ c.err = "none") => CanAttachTimer(m_Timers', c.name)
    /\ (c.op = "DeleteLogger" /\ c.err = "none") => CanAttachLogger(m_Logs', c.name)

\* C38 as stated: on both maps, Attach(name) signals AssertionError exactly
\* when name is registered, Get(name) and Delete(name) exactly when it is
\* not; a failing call leaves the map unchanged, the other names are
\* unaffected, and after Delete(name) the name can be attached again.
C38_RegistryErrorsByNameOnly ==
    [][LET c == rlast'
           map == IF OnTimers(c) THEN m_Timers ELSE m_Logs
           map2 == IF OnTimers(c) THEN m_Timers' ELSE m_Logs'
       IN  (OnTimers(c) \/ OnLoggers(c)) =>
              /\ c.err \in {"none", "FailedAssertion"}
              /\ IsAttach(c) => (c.err = "FailedAssertion" <=> Found(map, c.name))
              /\ IsGetOrDelete(c) => (c.err = "FailedAssertion" <=> ~Found(map, c.name))
              /\ RegistryFrame(c, map, map2)
              /\ RegistryEffect(c, map2)]_vars

\* C38, amended: as above, except that AttachLogger(name, file) signals
\* AssertionError exactly when name is registered or the file cannot be
\* opened.
C38_RegistryErrorsOrFileNotOpened ==
    [][LET c == rlast'
           map == IF OnTimers(c) THEN m_Timers ELSE m_Logs
           map2 == IF OnTimers(c) THEN m_Timers' ELSE m_Logs'
       IN  (OnTimers(c) \/ OnLoggers(c)) =>
              /\ c.err \in {"none", "FailedAssertion"}
              /\ c.op = "AttachTimer" =>
                    (c.err = "FailedAssertion" <=> Found(map, c.name))
              /\ c.op = "AttachLogger" =>
                    (c.err = "FailedAssertion" <=> (Found(map, c.name) \/ ~c.opened))
              /\ IsGetOrDelete(c) => (c.err = "FailedAssertion" <=> ~Found(map, c.name))
              /\ RegistryFrame(c, map, map2)
              /\ RegistryEffect(c, map2)]_vars

\* AttachLogger has failed on a name that is not registered, its file not
\* opening, while the other name is registered in both maps.
C38_Witness ==
    /\ rlast.op = "AttachLogger"
    /\ rlast.err = "FailedAssertion"
    /\ ~rlast.opened
    /\ ~Found(m_Logs, rlast.name)
    /\ \E n \in Names \ {rlast.name} : Found(m_Logs, n) /\ Found(m_Timers, n)

====
